---- MODULE Spec2Model ----
(***************************************************************************)
(* Model of the format-A vault engine (VaultFormat / VaultFormatA) of      *)
(* buttercup-core: the command history, the replayed vault tree, the       *)
(* read-only and dirty flags, the commandsExecuted event and the           *)
(* encodeRaw / parseEncrypted envelope; of the share extraction and the    *)
(* crypto resources as functions of their inputs; and of the attachment    *)
(* manager's setAttachment / getAttachment as interleaved asynchronous     *)
(* calls on one vault source.                                              *)
(*                                                                         *)
(* A history line is a sequence of tokens: the words of the line, which    *)
(* the text separates by single spaces.  <<"cgr", "0", "g1">> is the line  *)
(* "cgr 0 g1" and <<"$u1", "pad", "n1">> the share-prefixed line           *)
(* "$<uuid u1> pad n1".                                                    *)
(***************************************************************************)
EXTENDS Integers, Sequences, FiniteSets, TLC

VARIABLES readOnly, dirty, history, source, call, trace, initialised, decoded

\* the function under application, its inputs and its result
VARIABLES codec

\* the vault source the attachment manager works on, and its calls in flight
VARIABLES supports, vaultKey, details, lastPut, procs

\* a function of the library outside the classes above, its argument and
\* its result
VARIABLES applied

\* the loaded crypto resource module: its derivation-rounds override and
\* its last call
VARIABLES crypto
VARIABLES search

\* the attachments of one entry, in the entry's attributes and in the
\* datasource, the vault's read-only flag and the calls in flight
VARIABLES bookkeeping

\* the MyButtercup client: its tokens, what its last step did and its API
\* calls in flight
VARIABLES client

\* the Google Drive datasource: whether it holds content, and its load and
\* save calls in flight
VARIABLES drive

\* a Search whose prepare and incrementScore calls overlap in time
VARIABLES overlap

engineVars == <<readOnly, dirty, history, source, call, trace, initialised, decoded>>
codecVars == <<codec>>
attachmentVars == <<supports, vaultKey, details, lastPut, procs>>
functionVars == <<applied>>
cryptoVars == <<crypto>>
searchVars == <<search>>
bookkeepingVars == <<bookkeeping>>
clientVars == <<client>>
driveVars == <<drive>>
overlapVars == <<overlap>>

vars == <<engineVars, codecVars, attachmentVars, functionVars, cryptoVars, searchVars, bookkeepingVars, clientVars, driveVars, overlapVars>>

\* what the steps of one part of the library leave alone
outsideEngine == <<codecVars, attachmentVars, functionVars, cryptoVars, searchVars, bookkeepingVars, clientVars, driveVars, overlapVars>>
outsideCodec == <<engineVars, attachmentVars, functionVars, cryptoVars, searchVars, bookkeepingVars, clientVars, driveVars, overlapVars>>
outsideAttachments == <<engineVars, codecVars, functionVars, cryptoVars, searchVars, bookkeepingVars, clientVars, driveVars, overlapVars>>
outsideFunctions == <<engineVars, codecVars, attachmentVars, cryptoVars, searchVars, bookkeepingVars, clientVars, driveVars, overlapVars>>
outsideCrypto == <<engineVars, codecVars, attachmentVars, functionVars, searchVars, bookkeepingVars, clientVars, driveVars, overlapVars>>
outsideSearch == <<engineVars, codecVars, attachmentVars, functionVars, cryptoVars, bookkeepingVars, clientVars, driveVars, overlapVars>>
outsideBookkeeping == <<engineVars, codecVars, attachmentVars, functionVars, cryptoVars, searchVars, clientVars, driveVars, overlapVars>>
outsideClient == <<engineVars, codecVars, attachmentVars, functionVars, cryptoVars, searchVars, bookkeepingVars, driveVars, overlapVars>>
outsideDrive == <<engineVars, codecVars, attachmentVars, functionVars, cryptoVars, searchVars, bookkeepingVars, clientVars, overlapVars>>
outsideOverlap == <<engineVars, codecVars, attachmentVars, functionVars, cryptoVars, searchVars, bookkeepingVars, clientVars, driveVars>>

-----------------------------------------------------------------------------
(* Bounds of the exploration.                                              *)

\* execute-family operations are explored while the history is shorter
MaxHistory == 5
\* longest batch handed to execute(commands[])
MaxBatch == 2
\* longest history handed to the codec functions
MaxLines == 3

-----------------------------------------------------------------------------
(* Vocabulary.                                                             *)

GroupIDs == {"g1", "g2"}
EntryIDs == {"e1"}
UUIDs == {"v1"}
Nonces == {"n1"}
PropKeys == {"k"}
PropVals == {"x"}
\* "$u1\t" is the prefix $<uuid u1> followed by a tab in place of the space
SharePrefixes == {"$u1", "$u2", "$u1\t"}
RootID == "0"
NoShare == "none"
NoVal == "~"
FormatTag == "buttercup/a"

\* line.substring(1, 1 + UUID_LEN)
ShareIDOf(prefix) ==
    CASE prefix \in {"$u1", "$u1\t"} -> "u1"
      [] prefix = "$u2" -> "u2"
      [] OTHER -> NoShare

\* the three-letter lowercase words of the vocabulary ([a-z]{3})
OpCodes ==
    {"aid", "cen", "cgr", "cmm", "daa", "dea", "dem", "den", "dep", "dga",
     "dgr", "fmt", "men", "mgr", "pad", "saa", "sea", "sem", "sep", "sga", "tgr"}
Lower3 == OpCodes \cup {"xyz"}

ToLowerCase(tok) == IF tok = "PAD" THEN "pad" ELSE tok

Last(s) == s[Len(s)]

-----------------------------------------------------------------------------
(* Regular expressions of VaultFormat.ts, on token sequences.              *)

\* /^\$[a-f0-9]{8}-...-[a-f0-9]{12}\s/ : a share prefix followed by whitespace
SHARE_COMMAND_EXP(line) == Len(line) >= 2 /\ line[1] \in SharePrefixes

\* /^[a-z]{3}\s.+$/
VALID_COMMAND_EXP(line) == Len(line) >= 2 /\ line[1] \in Lower3

\* /^pad\s/i ; `undefined' (no such line) is rendered "undefined": no match
PadTest(line) == Len(line) >= 2 /\ ToLowerCase(line[1]) = "pad"

-----------------------------------------------------------------------------
(* The vault tree (this.source).                                           *)

NoAttrs == [k \in PropKeys |-> NoVal]

\* map[key] = value
SetKey(map, key, value) ==
    [x \in DOMAIN map \cup {key} |-> IF x = key THEN value ELSE map[x]]

EmptySource ==
    [format |-> NoVal, id |-> NoVal, groups |-> <<>>, entries |-> <<>>,
     attributes |-> NoAttrs]

GroupExists(src, gid) == \E i \in 1..Len(src.groups) : src.groups[i].id = gid
EntryExists(src, eid) == \E i \in 1..Len(src.entries) : src.entries[i].id = eid

\* the IDs of the group gid and of all groups beneath it
RECURSIVE Descendants(_, _, _)
Descendants(src, ids, n) ==
    IF n = 0 THEN ids
    ELSE Descendants(src,
             ids \cup {src.groups[i].id : i \in
                          {j \in 1..Len(src.groups) : src.groups[j].parent \in ids}},
             n - 1)

IndexOfGroup(src, gid) == CHOOSE i \in 1..Len(src.groups) : src.groups[i].id = gid
IndexOfEntry(src, eid) == CHOOSE i \in 1..Len(src.entries) : src.entries[i].id = eid

RemoveAt(s, i) == SubSeq(s, 1, i - 1) \o SubSeq(s, i + 1, Len(s))

Fail(src) == [ok |-> FALSE, source |-> src]
Done(src) == [ok |-> TRUE, source |-> src]

-----------------------------------------------------------------------------
(* Command executors (formatA/commands.js): one function per opcode, which *)
(* either mutates the tree or throws leaving it as it was.                  *)

executeFormat(src, p) == Done([src EXCEPT !.format = p[1]])

executeArchiveID(src, p) == Done([src EXCEPT !.id = p[1]])

executeComment(src, p) == Done(src)

executePad(src, p) == Done(src)

executeCreateGroup(src, shareID, p) ==
    IF Len(p) < 2 \/ GroupExists(src, p[2]) THEN Fail(src)
    ELSE IF p[1] # RootID /\ ~GroupExists(src, p[1]) THEN Fail(src)
    ELSE Done([src EXCEPT !.groups = Append(@,
             [id |-> p[2], parent |-> p[1], title |-> NoVal,
              attributes |-> NoAttrs, share |-> shareID])])

executeTitleGroup(src, p) ==
    IF Len(p) < 2 \/ ~GroupExists(src, p[1]) THEN Fail(src)
    ELSE Done([src EXCEPT !.groups[IndexOfGroup(src, p[1])].title = p[2]])

executeMoveGroup(src, p) ==
    IF Len(p) < 2 \/ ~GroupExists(src, p[1]) THEN Fail(src)
    ELSE IF p[2] # RootID /\ ~GroupExists(src, p[2]) THEN Fail(src)
    ELSE IF p[2] \in Descendants(src, {p[1]}, Len(src.groups)) THEN Fail(src)
    ELSE Done([src EXCEPT !.groups[IndexOfGroup(src, p[1])].parent = p[2]])

executeDeleteGroup(src, p) ==
    IF ~GroupExists(src, p[1]) THEN Fail(src)
    ELSE LET gone == Descendants(src, {p[1]}, Len(src.groups))
         IN Done([src EXCEPT
                !.groups = SelectSeq(@, LAMBDA g : g.id \notin gone),
                !.entries = SelectSeq(@, LAMBDA e : e.parent \notin gone)])

executeSetGroupAttribute(src, p) ==
    IF Len(p) < 3 \/ ~GroupExists(src, p[1]) THEN Fail(src)
    ELSE Done([src EXCEPT !.groups[IndexOfGroup(src, p[1])].attributes =
             SetKey(@, p[2], p[3])])

executeDeleteGroupAttribute(src, p) ==
    IF Len(p) < 2 \/ ~GroupExists(src, p[1]) THEN Fail(src)
    ELSE Done([src EXCEPT !.groups[IndexOfGroup(src, p[1])].attributes =
             SetKey(@, p[2], NoVal)])

executeCreateEntry(src, shareID, p) ==
    IF Len(p) < 2 \/ EntryExists(src, p[2]) \/ ~GroupExists(src, p[1]) THEN Fail(src)
    ELSE Done([src EXCEPT !.entries = Append(@,
             [id |-> p[2], parent |-> p[1], properties |-> NoAttrs,
              attributes |-> NoAttrs, share |-> shareID])])

executeMoveEntry(src, p) ==
    IF Len(p) < 2 \/ ~EntryExists(src, p[1]) \/ ~GroupExists(src, p[2]) THEN Fail(src)
    ELSE Done([src EXCEPT !.entries[IndexOfEntry(src, p[1])].parent = p[2]])

executeDeleteEntry(src, p) ==
    IF ~EntryExists(src, p[1]) THEN Fail(src)
    ELSE Done([src EXCEPT !.entries = RemoveAt(@, IndexOfEntry(src, p[1]))])

executeSetEntryProperty(src, p) ==
    IF Len(p) < 3 \/ ~EntryExists(src, p[1]) THEN Fail(src)
    ELSE Done([src EXCEPT !.entries[IndexOfEntry(src, p[1])].properties =
             SetKey(@, p[2], p[3])])

executeDeleteEntryProperty(src, p) ==
    IF Len(p) < 2 \/ ~EntryExists(src, p[1]) THEN Fail(src)
    ELSE Done([src EXCEPT !.entries[IndexOfEntry(src, p[1])].properties =
             SetKey(@, p[2], NoVal)])

executeSetEntryAttribute(src, p) ==
    IF Len(p) < 3 \/ ~EntryExists(src, p[1]) THEN Fail(src)
    ELSE Done([src EXCEPT !.entries[IndexOfEntry(src, p[1])].attributes =
             SetKey(@, p[2], p[3])])

executeDeleteEntryAttribute(src, p) ==
    IF Len(p) < 2 \/ ~EntryExists(src, p[1]) THEN Fail(src)
    ELSE Done([src EXCEPT !.entries[IndexOfEntry(src, p[1])].attributes =
             SetKey(@, p[2], NoVal)])

executeSetArchiveAttribute(src, p) ==
    IF Len(p) < 2 THEN Fail(src)
    ELSE Done([src EXCEPT !.attributes = SetKey(@, p[1], p[2])])

executeDeleteArchiveAttribute(src, p) ==
    Done([src EXCEPT !.attributes = SetKey(@, p[1], NoVal)])

\* COMMANDS[commandKey].apply(null, [source, {shareID}, ...parameters])
COMMANDS(commandKey, src, shareID, p) ==
    CASE commandKey = "aid" -> executeArchiveID(src, p)
      [] commandKey = "cen" -> executeCreateEntry(src, shareID, p)
      [] commandKey = "cgr" -> executeCreateGroup(src, shareID, p)
      [] commandKey = "cmm" -> executeComment(src, p)
      [] commandKey = "daa" -> executeDeleteArchiveAttribute(src, p)
      [] commandKey = "dea" -> executeDeleteEntryAttribute(src, p)
      [] commandKey = "dem" -> executeDeleteEntryProperty(src, p)
      [] commandKey = "den" -> executeDeleteEntry(src, p)
      [] commandKey = "dep" -> executeDeleteEntryProperty(src, p)
      [] commandKey = "dga" -> executeDeleteGroupAttribute(src, p)
      [] commandKey = "dgr" -> executeDeleteGroup(src, p)
      [] commandKey = "fmt" -> executeFormat(src, p)
      [] commandKey = "men" -> executeMoveEntry(src, p)
      [] commandKey = "mgr" -> executeMoveGroup(src, p)
      [] commandKey = "pad" -> executePad(src, p)
      [] commandKey = "saa" -> executeSetArchiveAttribute(src, p)
      [] commandKey = "sea" -> executeSetEntryAttribute(src, p)
      [] commandKey = "sem" -> executeSetEntryProperty(src, p)
      [] commandKey = "sep" -> executeSetEntryProperty(src, p)
      [] commandKey = "sga" -> executeSetGroupAttribute(src, p)
      [] commandKey = "tgr" -> executeTitleGroup(src, p)
      [] OTHER -> Fail(src)

\* COMMAND_MANIFEST (formatA/tools.js): the number of declared arguments
ManifestArity(commandKey) ==
    CASE commandKey \in {"fmt", "aid", "cmm", "pad", "dgr", "den", "daa"} -> 1
      [] commandKey \in {"cgr", "tgr", "mgr", "dga", "cen", "men", "dep", "dem",
                         "dea", "saa"} -> 2
      [] commandKey \in {"sga", "sep", "sem", "sea"} -> 3
      [] OTHER -> 0

\* extractCommandComponents (formatA/tools.js): the words of the command
extractCommandComponents(cmd) == cmd

\* Inigo.generatePaddingCommand(): "pad <nonce>"
generatePaddingCommand(nonce) == <<"pad", nonce>>

-----------------------------------------------------------------------------
(* The engine.  An execution state is the part of the engine one call      *)
(* works on: history, source, dirty, the events of the call so far, the    *)
(* error thrown (NoError while none) and the number of commands of the     *)
(* batch that _executeCommand has returned from.                           *)

NoError == "none"

Engine(h, src, d) ==
    [history |-> h, source |-> src, dirty |-> d, trace |-> <<>>,
     err |-> NoError, done |-> 0]

\* _processCommandParameters: throws when the opcode has no manifest entry
\* or a parameter has no argument descriptor (args[i] is undefined)
processCommandParametersThrows(commandKey, parameters) ==
    ManifestArity(commandKey) = 0 \/ Len(parameters) > ManifestArity(commandKey)

\* _executeCommand with history.push(command) moved before the executor call
_executeCommand_pushFirst(st, command) ==
    LET isShare == SHARE_COMMAND_EXP(command)
        shareID == IF isShare THEN ShareIDOf(command[1]) ELSE NoShare
        currentCommand == IF isShare THEN Tail(command) ELSE command
    IN  IF ~VALID_COMMAND_EXP(currentCommand)
        THEN [st EXCEPT !.err = "InvalidCommand"]
        ELSE IF PadTest(command) /\ st.history # <<>> /\ PadTest(Last(st.history))
        THEN [st EXCEPT !.trace = Append(@, "skip"), !.done = @ + 1]
        ELSE LET commandComponents == extractCommandComponents(currentCommand)
                 commandKey == ToLowerCase(Head(commandComponents))
                 parameters == Tail(commandComponents)
                 r == IF commandKey \notin OpCodes
                         \/ processCommandParametersThrows(commandKey, parameters)
                      THEN Fail(st.source)
                      ELSE COMMANDS(commandKey, st.source, shareID, parameters)
             IN  IF r.ok
                 THEN [st EXCEPT !.source = r.source,
                                 !.history = Append(@, command),
                                 !.trace = Append(@, "push"),
                                 !.done = @ + 1]
                 ELSE [st EXCEPT !.history = Append(@, command),
                                 !.err = "ExecutorError"]

\* _executeCommand with history.unshift(command) in place of history.push(command)
_executeCommand_unshift(st, command) ==
    LET isShare == SHARE_COMMAND_EXP(command)
        shareID == IF isShare THEN ShareIDOf(command[1]) ELSE NoShare
        currentCommand == IF isShare THEN Tail(command) ELSE command
    IN  IF ~VALID_COMMAND_EXP(currentCommand)
        THEN [st EXCEPT !.err = "InvalidCommand"]
        ELSE IF PadTest(command) /\ st.history # <<>> /\ PadTest(Last(st.history))
        THEN [st EXCEPT !.trace = Append(@, "skip"), !.done = @ + 1]
        ELSE LET commandComponents == extractCommandComponents(currentCommand)
                 commandKey == ToLowerCase(Head(commandComponents))
                 parameters == Tail(commandComponents)
                 r == IF commandKey \notin OpCodes
                         \/ processCommandParametersThrows(commandKey, parameters)
                      THEN Fail(st.source)
                      ELSE COMMANDS(commandKey, st.source, shareID, parameters)
             IN  IF r.ok
                 THEN [st EXCEPT !.source = r.source,
                                 !.history = <<command>> \o @,
                                 !.trace = Append(@, "push"),
                                 !.done = @ + 1]
                 ELSE [st EXCEPT !.err = "ExecutorError"]

_executeCommand(st, command) ==
    LET isShare == SHARE_COMMAND_EXP(command)
        shareID == IF isShare THEN ShareIDOf(command[1]) ELSE NoShare
        currentCommand == IF isShare THEN Tail(command) ELSE command
    IN  IF ~VALID_COMMAND_EXP(currentCommand)
        THEN [st EXCEPT !.err = "InvalidCommand"]
        ELSE IF PadTest(command) /\ st.history # <<>> /\ PadTest(Last(st.history))
        THEN \* skip adding extra pad
             [st EXCEPT !.trace = Append(@, "skip"), !.done = @ + 1]
        ELSE LET commandComponents == extractCommandComponents(currentCommand)
                 commandKey == ToLowerCase(Head(commandComponents))
                 parameters == Tail(commandComponents)
                 r == IF commandKey \notin OpCodes
                         \/ processCommandParametersThrows(commandKey, parameters)
                      THEN Fail(st.source)
                      ELSE COMMANDS(commandKey, st.source, shareID, parameters)
             IN  IF r.ok
                 THEN [st EXCEPT !.source = r.source,
                                 !.history = Append(@, command),
                                 !.trace = Append(@, "push"),
                                 !.done = @ + 1]
                 ELSE [st EXCEPT !.err = "ExecutorError"]

\* the padding command is not one of the caller's commands: `done' stays
_pad(st, nonce) ==
    [_executeCommand(st, generatePaddingCommand(nonce)) EXCEPT !.done = st.done]

\* commands.forEach(command => this._executeCommand(command)): stops at the
\* first command that throws
RECURSIVE forEachCommand(_, _)
forEachCommand(st, commands) ==
    IF commands = <<>> \/ st.err # NoError THEN st
    ELSE forEachCommand(_executeCommand(st, Head(commands)), Tail(commands))

\* execute without the read-only check
execute_ignoringReadOnly(st0, ro, commands, nonce) ==
    LET st == [st0 EXCEPT !.trace = Append(@, "call")]
        st1 == forEachCommand(st, commands)
        padNeeded == commands = <<>> \/ ~PadTest(Last(commands))
        st2 == IF st1.err = NoError /\ padNeeded THEN _pad(st1, nonce) ELSE st1
    IN  IF st2.err # NoError THEN st2
        ELSE [st2 EXCEPT !.dirty = TRUE, !.trace = Append(@, "commandsExecuted")]

\* execute without the call of _pad
execute_withoutPadding(st0, ro, commands, nonce) ==
    LET st == [st0 EXCEPT !.trace = Append(@, "call")]
    IN  IF ro THEN [st EXCEPT !.err = "ReadOnly"]
        ELSE LET st1 == forEachCommand(st, commands)
             IN  IF st1.err # NoError THEN st1
                 ELSE [st1 EXCEPT !.dirty = TRUE, !.trace = Append(@, "commandsExecuted")]

\* execute emitting commandsExecuted before the padding line is appended
execute_emittingBeforePadding(st0, ro, commands, nonce) ==
    LET st == [st0 EXCEPT !.trace = Append(@, "call")]
    IN  IF ro THEN [st EXCEPT !.err = "ReadOnly"]
        ELSE LET st1 == forEachCommand(st, commands)
                 padNeeded == commands = <<>> \/ ~PadTest(Last(commands))
                 st2 == [st1 EXCEPT !.dirty = TRUE, !.trace = Append(@, "commandsExecuted")]
             IN  IF st1.err # NoError THEN st1
                 ELSE IF padNeeded THEN _pad(st2, nonce) ELSE st2

execute(st0, ro, commands, nonce) ==
    LET st == [st0 EXCEPT !.trace = Append(@, "call")]
    IN  IF ro THEN [st EXCEPT !.err = "ReadOnly"]
        ELSE LET st1 == forEachCommand(st, commands)
                 padNeeded == commands = <<>> \/ ~PadTest(Last(commands))
                 st2 == IF st1.err = NoError /\ padNeeded THEN _pad(st1, nonce) ELSE st1
             IN  IF st2.err # NoError THEN st2
                 ELSE [st2 EXCEPT !.dirty = TRUE, !.trace = Append(@, "commandsExecuted")]

\* Inigo.create(cmd).addArgument(a)....generateCommand()
Inigo(commandKey, arguments) == <<commandKey>> \o arguments

generateID(st, ro, uuid, nonce) ==
    execute(st, ro, <<Inigo("aid", <<uuid>>)>>, nonce)

\* initialise issuing the vault ID before the format command
initialise_idFirst(st, ro, uuid, nonce1, nonce2) ==
    LET identified == generateID(st, ro, uuid, nonce1)
    IN  IF identified.err # NoError THEN identified
        ELSE execute(identified, ro, <<Inigo("fmt", <<FormatTag>>)>>, nonce2)

initialise(st, ro, uuid, nonce1, nonce2) ==
    LET formatted == execute(st, ro, <<Inigo("fmt", <<FormatTag>>)>>, nonce1)
    IN  IF formatted.err # NoError THEN formatted
        ELSE generateID(formatted, ro, uuid, nonce2)

-----------------------------------------------------------------------------
(* Serialisation.  A text is a sequence of tokens in which NL stands for   *)
(* the newline character; a blob is a text under the layers that           *)
(* compression, encryption and signing have put around it, outermost       *)
(* first.                                                                  *)

NL == "\n"
Passwords == {"pw1"}
CryptoImpls == {"native", "web", "node"}

Layer(l, k) == [l |-> l, k |-> k]
Plain(text) == [layers |-> <<>>, text |-> text]
Wrap(blob, layer) == [blob EXCEPT !.layers = <<layer>> \o @]
Unwrap(blob) == [blob EXCEPT !.layers = Tail(@)]
TopIs(blob, l) == blob.layers # <<>> /\ Head(blob.layers).l = l

\* historyArray.join("\n")
RECURSIVE historyArrayToString(_)
historyArrayToString(historyArray) ==
    IF historyArray = <<>> THEN <<>>
    ELSE IF Len(historyArray) = 1 THEN historyArray[1]
    ELSE historyArray[1] \o <<NL>> \o historyArrayToString(Tail(historyArray))

RECURSIVE splitLines(_, _, _)
splitLines(text, current, lines) ==
    IF text = <<>> THEN Append(lines, current)
    ELSE IF Head(text) = NL THEN splitLines(Tail(text), <<>>, Append(lines, current))
    ELSE splitLines(Tail(text), Append(current, Head(text)), lines)

\* historyString.split(" "): the words, and no line breaks
historyStringToArray_splitOnSpace(historyString) ==
    [i \in 1..Len(historyString) |-> <<historyString[i]>>]

\* historyString.split("\n")
historyStringToArray(historyString) == splitLines(historyString, <<>>, <<>>)

\* compression/v1/compressText and decompressText
compressText(text) == Wrap(Plain(text), Layer("gzip", ""))
decompressText(blob) == IF TopIs(blob, "gzip") THEN Unwrap(blob) ELSE Plain(<<>>)

\* iocane's adapter: authenticated encryption under a password
iocaneEncrypt(blob, password) == Wrap(blob, Layer("iocane", password))
iocaneDecrypts(blob, password) ==
    TopIs(blob, "iocane") /\ Head(blob.layers).k = password

\* a password that is not a string (part_000 hands such data to the Tide
\* functions)
NonStringPasswords == {"{tide}"}

\* crypto/v1/encryptText of the three crypto resource modules
encryptData(impl, blob, password) ==
    CASE impl = "native" -> blob
      [] impl = "web" -> iocaneEncrypt(blob, "password")
      [] impl = "node" /\ password \in NonStringPasswords -> blob
      [] OTHER -> iocaneEncrypt(blob, password)

\* the password crypto/v1/decryptText hands to the adapter
decryptPassword(impl, password) == IF impl = "web" THEN "password" ELSE password

\* crypto/v1/decryptText: the plain data, or a rejection
decryptData(impl, blob, password) ==
    CASE impl = "native" -> [ok |-> TRUE, blob |-> blob]
      [] impl = "node" /\ password \in NonStringPasswords -> [ok |-> TRUE, blob |-> blob]
      [] OTHER -> IF iocaneDecrypts(blob, decryptPassword(impl, password))
                  THEN [ok |-> TRUE, blob |-> Unwrap(blob)]
                  ELSE [ok |-> FALSE, blob |-> Plain(<<>>)]

\* formatA/signing.js
sign(blob) == Wrap(blob, Layer("signature", FormatTag))
hasValidSignature(blob) == TopIs(blob, "signature") /\ Head(blob.layers).k = FormatTag
stripSignature(blob) == Unwrap(blob)

\* encodeRaw that leaves the compression out
encodeRaw_withoutCompression(rawContent, password, impl) ==
    sign(encryptData(impl, Plain(historyArrayToString(rawContent)), password))

encodeRaw(rawContent, password, impl) ==
    sign(encryptData(impl, compressText(historyArrayToString(rawContent)), password))

\* a string that is neither undefined nor ""
NonEmpty(blob) == blob.layers # <<>> \/ blob.text # <<>>

\* a call of the crypto or compression resource, and what it was handed
Called(fn, arg) == [fn |-> fn, arg |-> arg]

Failed(why, calls) == [status |-> why, lines |-> <<>>, calls |-> calls]
Parsed(lines, calls) == [status |-> "ok", lines |-> lines, calls |-> calls]

\* parseEncrypted that decrypts before it looks at the signature
parseEncrypted_decryptFirst(encryptedContent, password, impl) ==
    LET decrypted == decryptData(impl, encryptedContent, password)
        calls == <<Called("decrypt", encryptedContent)>>
    IN  IF ~decrypted.ok THEN Failed("DecryptError", calls)
        ELSE IF ~hasValidSignature(decrypted.blob) THEN Failed("NoValidSignature", calls)
        ELSE Failed("DecryptionFailed", calls)

parseEncrypted(encryptedContent, password, impl) ==
    IF ~hasValidSignature(encryptedContent) THEN Failed("NoValidSignature", <<>>)
    ELSE LET encryptedData == stripSignature(encryptedContent)
             decrypted == decryptData(impl, encryptedData, password)
             decryptCalled == <<Called("decrypt", encryptedData)>>
         IN  IF ~decrypted.ok THEN Failed("DecryptError", decryptCalled)
             ELSE IF ~NonEmpty(decrypted.blob)
             THEN Failed("DecryptionFailed", decryptCalled)
             ELSE LET decompressed == decompressText(decrypted.blob)
                      bothCalled == Append(decryptCalled,
                                           Called("decompress", decrypted.blob))
                  IN  IF NonEmpty(decompressed)
                      THEN Parsed(historyStringToArray(decompressed.text), bothCalled)
                      ELSE Failed("DecryptionFailed", bothCalled)

\* the reducer of extractSharesFromHistory, from `output' on over `lines'
RECURSIVE reduceLines(_, _)
reduceLines(output, lines) ==
    IF lines = <<>> THEN output
    ELSE LET line == Head(lines)
         IN  IF SHARE_COMMAND_EXP(line)
             THEN LET shareID == ShareIDOf(line[1])
                      command == Tail(line)
                      bucket == IF shareID \in DOMAIN output THEN output[shareID]
                                ELSE <<>>
                  IN  reduceLines(SetKey(output, shareID, Append(bucket, command)),
                                  Tail(lines))
             ELSE reduceLines([output EXCEPT !["base"] = Append(@, line)], Tail(lines))

\* extractSharesFromHistory that files a share's line under base as well
extractSharesFromHistory_alsoInBase(historyLines) ==
    LET output == reduceLines([b \in {"base"} |-> <<>>], historyLines)
    IN  [output EXCEPT !["base"] = historyLines]

extractSharesFromHistory(historyLines) ==
    reduceLines([b \in {"base"} |-> <<>>], historyLines)

-----------------------------------------------------------------------------
(* Inputs.                                                                 *)

\* command texts handed to execute(command)
Commands ==
    { <<"fmt", FormatTag>>, <<"cmm", "x">>, <<"pad", "n1">>,
      <<"$u1", "pad", "n1">>, <<"$u1", "cgr", "0", "g2">>,
      <<"PAD", "n1">>, <<"xyz", "a">>, <<"cmm", "x", "y">>,
      <<"pad", "n1", "x">> }

\* command texts of the batches handed to execute(commands[])
BatchCommands ==
    { <<"pad", "n1">>, <<"cmm", "x">>, <<"cen", "g1", "e1">> }

\* the batches: up to MaxBatch commands, each of them once
Batches ==
    UNION { {b \in [1..n -> BatchCommands] :
                \A i, j \in 1..n : b[i] = b[j] => i = j} : n \in 0..MaxBatch }

NotDecoded == [status |-> "none", lines |-> <<>>, after |-> "none", fresh |-> FALSE]

\* lines of the histories handed to the codec functions: an empty line,
\* plain commands, and lines of two shares, one of them tab-separated
CodecLines ==
    { <<>>, <<"cmm", "x">>, <<"pad", "n1">>,
      <<"$u1", "cmm", "x">>, <<"$u2", "pad", "n1">>, <<"$u1\t", "cmm", "x">> }

CodecHistories == UNION { [1..n -> CodecLines] : n \in 0..MaxLines }

CodecPasswords == {"pw1", "pw2"} \cup NonStringPasswords

NoOutput == [status |-> "none"]

\* no function applied, no input drawn
CodecIdle == codec = [op |-> "idle"]

\* the calls of the attachment manager that can be in flight together
Calls == {1, 2}
AttachmentIDs == {"a1"}
\* what generateRandomString(ATTACHMENTS_KEY_LENGTH) can resolve to
Keys == {"K1", "K2"}
NoKey == "none"

\* DBDatasource.MAX_DATA_SIZE, in bytes
MAX_DATA_SIZE == 200 * 1024 * 1024

\* attachment data, by its size in bytes and the size of its encrypted form
AttachmentData ==
    { [sizeOriginal |-> 1, sizeEncrypted |-> 1],
      [sizeOriginal |-> 1, sizeEncrypted |-> 3],
      [sizeOriginal |-> MAX_DATA_SIZE + 1, sizeEncrypted |-> MAX_DATA_SIZE + 1] }

\* what getAvailableStorage() resolves to: null, or a number of bytes
NullStorage == [limited |-> FALSE, bytes |-> 0]
AvailableStorage == {NullStorage} \cup {[limited |-> TRUE, bytes |-> b] : b \in {0, 2}}

\* the parsed BC_ATTACHMENT:<id> attribute of the entry, or null
NoDetails == [present |-> FALSE, sizeOriginal |-> 0, sizeEncrypted |-> 0]
Details(sizeOriginal, sizeEncrypted) ==
    [present |-> TRUE, sizeOriginal |-> sizeOriginal, sizeEncrypted |-> sizeEncrypted]

\* the encrypted data last handed to datasource.putAttachment for an
\* attachment ID, by its size and the key it is encrypted under, if any
NeverPut == [present |-> FALSE, size |-> 0, key |-> NoKey]

IdleCall ==
    [op |-> "idle", pc |-> "idle", id |-> "a1", named |-> TRUE,
     sizeOriginal |-> 0, sizeEncrypted |-> 0, sizeIncrease |-> 0,
     noRecord |-> FALSE, existing |-> NoDetails, key |-> NoKey,
     createdKey |-> FALSE, short |-> FALSE, did |-> <<>>,
     spaceAvailable |-> NullStorage, result |-> "pending"]

\* the call after one more call of its own to the vault, the source or the
\* datasource
Did(p, event) == [p EXCEPT !.did = Append(@, event)]

\* the call rejected with an error
Throw(p, error) == [p EXCEPT !.pc = "done", !.result = error]

\* a size increase that charges an update its full encrypted size
sizeIncrease_full(existingDetails, sizeEncrypted) == sizeEncrypted

\* sizeIncrease of setAttachment
sizeIncrease(existingDetails, sizeEncrypted) ==
    IF existingDetails.present
    THEN IF sizeEncrypted - existingDetails.sizeEncrypted > 0
         THEN sizeEncrypted - existingDetails.sizeEncrypted ELSE 0
    ELSE sizeEncrypted

\* a quota check that lets everything through
notEnoughSpace_never(spaceAvailable, increase) == FALSE

\* spaceAvailable !== null && sizeIncrease > spaceAvailable
notEnoughSpace(spaceAvailable, increase) ==
    spaceAvailable.limited /\ increase > spaceAvailable.bytes

\* getAttachment that takes a missing details record for a present one
detailsMissing_never(attachmentDetails) == FALSE

\* !details
detailsMissing(attachmentDetails) == ~attachmentDetails.present

\* _getAttachmentsCredentials that goes on after a failed save
saveSettled_ignoringFailure(p, saved) ==
    [Did(p, IF saved THEN "saved" ELSE "saveFailed") EXCEPT !.pc = "gotCredentials"]

\* `await this._source.save()' in _getAttachmentsCredentials, settled
saveSettled(p, saved) ==
    IF saved THEN [Did(p, "saved") EXCEPT !.pc = "gotCredentials"]
    ELSE Throw(Did(p, "saveFailed"), "SaveFailed")

\* no attachment manager on the vault: no attachments, no key, no calls
AttachmentsIdle ==
    /\ supports = FALSE
    /\ vaultKey = NoKey
    /\ details = <<>>
    /\ lastPut = <<>>
    /\ procs = <<>>

\* no function applied, no argument drawn
FunctionsIdle == applied = [op |-> "idle"]

\* no crypto resource module loaded
CryptoIdle == crypto = [op |-> "idle"]

\* the parts of the library a specification leaves out, as they start
\* no Search instance
SearchIdle == search = [op |-> "idle"]

\* no entry with attachments
BookkeepingIdle == bookkeeping = [op |-> "idle"]

\* no MyButtercup client
ClientIdle == client = [op |-> "idle"]

\* no Google Drive datasource
DriveIdle == drive = [op |-> "idle"]

\* no Search with overlapping calls
OverlapIdle == overlap = [op |-> "idle"]

IdleOutsideEngine ==
    CodecIdle /\ AttachmentsIdle /\ FunctionsIdle /\ CryptoIdle /\ SearchIdle /\ BookkeepingIdle /\ ClientIdle /\ DriveIdle /\ OverlapIdle
IdleOutsideCodec == AttachmentsIdle /\ FunctionsIdle /\ CryptoIdle /\ SearchIdle /\ BookkeepingIdle /\ ClientIdle /\ DriveIdle /\ OverlapIdle
IdleOutsideAttachments == CodecIdle /\ FunctionsIdle /\ CryptoIdle /\ SearchIdle /\ BookkeepingIdle /\ ClientIdle /\ DriveIdle /\ OverlapIdle
IdleOutsideFunctions == CodecIdle /\ AttachmentsIdle /\ CryptoIdle /\ SearchIdle /\ BookkeepingIdle /\ ClientIdle /\ DriveIdle /\ OverlapIdle
IdleOutsideCrypto == CodecIdle /\ AttachmentsIdle /\ FunctionsIdle /\ SearchIdle /\ BookkeepingIdle /\ ClientIdle /\ DriveIdle /\ OverlapIdle
IdleOutsideSearch == CodecIdle /\ AttachmentsIdle /\ FunctionsIdle /\ CryptoIdle /\ BookkeepingIdle /\ ClientIdle /\ DriveIdle /\ OverlapIdle
IdleOutsideBookkeeping ==
    CodecIdle /\ AttachmentsIdle /\ FunctionsIdle /\ CryptoIdle /\ SearchIdle /\ ClientIdle /\ DriveIdle /\ OverlapIdle
IdleOutsideClient ==
    CodecIdle /\ AttachmentsIdle /\ FunctionsIdle /\ CryptoIdle /\ SearchIdle /\ BookkeepingIdle /\ DriveIdle /\ OverlapIdle
IdleOutsideDrive ==
    CodecIdle /\ AttachmentsIdle /\ FunctionsIdle /\ CryptoIdle /\ SearchIdle /\ BookkeepingIdle /\ ClientIdle /\ OverlapIdle
IdleOutsideOverlap ==
    CodecIdle /\ AttachmentsIdle /\ FunctionsIdle /\ CryptoIdle /\ SearchIdle /\ BookkeepingIdle /\ ClientIdle /\ DriveIdle

-----------------------------------------------------------------------------
(* State machine.                                                          *)

\* the engine as the constructor leaves it
EngineIdle ==
    /\ readOnly = FALSE
    /\ dirty = FALSE
    /\ history = <<>>
    /\ source = EmptySource
    /\ call = [op |-> "constructor", cmds |-> <<>>, result |-> NoError,
               done |-> 0, fresh |-> TRUE]
    /\ trace = <<>>
    /\ initialised = FALSE
    /\ decoded = NotDecoded

Init == EngineIdle /\ IdleOutsideEngine

\* the engine after an operation that ran `cmds' through execute
Commit(op, cmds, st) ==
    /\ history' = st.history
    /\ source' = st.source
    /\ dirty' = st.dirty
    /\ trace' = st.trace
    /\ call' = [op |-> op, cmds |-> cmds, result |-> st.err, done |-> st.done,
                fresh |-> history = <<>> /\ source = EmptySource]
    /\ initialised' = (initialised \/ (op = "initialise" /\ st.err = NoError
                                       /\ history = <<>> /\ source = EmptySource))
    /\ decoded' = NotDecoded
    /\ UNCHANGED <<readOnly, outsideEngine>>

Now == Engine(history, source, dirty)

\* this.execute(cmd), as a mutator calls it
Mutated(cmd, nonce) == execute(Now, readOnly, <<cmd>>, nonce)

\* this._readOnly = value (set by the owning vault)
SetReadOnly ==
    /\ \E b \in BOOLEAN : readOnly' = b
    /\ call' = [op |-> "setReadOnly", cmds |-> <<>>, result |-> NoError,
                done |-> 0, fresh |-> FALSE]
    /\ trace' = <<>>
    /\ decoded' = NotDecoded
    /\ UNCHANGED <<dirty, history, source, initialised, outsideEngine>>

\* this.dirty = false (set by the owning vault source after a save)
MarkClean ==
    /\ dirty
    /\ dirty' = FALSE
    /\ call' = [op |-> "markClean", cmds |-> <<>>, result |-> NoError,
                done |-> 0, fresh |-> FALSE]
    /\ trace' = <<>>
    /\ decoded' = NotDecoded
    /\ UNCHANGED <<readOnly, history, source, initialised, outsideEngine>>

Execute ==
    /\ Len(history) < MaxHistory
    /\ \E command \in Commands, nonce \in Nonces :
          LET cmd == command
          IN  Commit("execute", <<cmd>>, Mutated(cmd, nonce))

ExecuteBatch ==
    /\ Len(history) < MaxHistory
    /\ \E commands \in Batches, nonce \in Nonces :
          Commit("executeBatch", commands, execute(Now, readOnly, commands, nonce))

Initialise ==
    /\ Len(history) < MaxHistory
    /\ \E uuid \in UUIDs, nonce1 \in Nonces, nonce2 \in Nonces :
          Commit("initialise", <<Inigo("fmt", <<FormatTag>>), Inigo("aid", <<uuid>>)>>,
                 initialise(Now, readOnly, uuid, nonce1, nonce2))

GenerateID ==
    /\ Len(history) < MaxHistory
    /\ \E uuid \in UUIDs, nonce \in Nonces :
          Commit("generateID", <<Inigo("aid", <<uuid>>)>>,
                 generateID(Now, readOnly, uuid, nonce))

CreateGroup ==
    /\ Len(history) < MaxHistory
    /\ \E parentID \in GroupIDs \cup {RootID}, groupID \in GroupIDs, nonce \in Nonces :
          LET cmd == Inigo("cgr", <<parentID, groupID>>)
          IN  Commit("createGroup", <<cmd>>, Mutated(cmd, nonce))

CreateEntry ==
    /\ Len(history) < MaxHistory
    /\ \E groupID \in GroupIDs, entryID \in EntryIDs, nonce \in Nonces :
          LET cmd == Inigo("cen", <<groupID, entryID>>)
          IN  Commit("createEntry", <<cmd>>, Mutated(cmd, nonce))

DeleteEntry ==
    /\ Len(history) < MaxHistory
    /\ \E entryID \in EntryIDs, nonce \in Nonces :
          LET cmd == Inigo("den", <<entryID>>)
          IN  Commit("deleteEntry", <<cmd>>, Mutated(cmd, nonce))

DeleteGroup ==
    /\ Len(history) < MaxHistory
    /\ \E groupID \in GroupIDs, nonce \in Nonces :
          LET cmd == Inigo("dgr", <<groupID>>)
          IN  Commit("deleteGroup", <<cmd>>, Mutated(cmd, nonce))

MoveGroup ==
    /\ Len(history) < MaxHistory
    /\ \E groupID \in GroupIDs, newParentID \in GroupIDs \cup {RootID}, nonce \in Nonces :
          LET cmd == Inigo("mgr", <<groupID, newParentID>>)
          IN  Commit("moveGroup", <<cmd>>, Mutated(cmd, nonce))

SetEntryProperty ==
    /\ Len(history) < MaxHistory
    /\ \E entryID \in EntryIDs, property \in PropKeys, value \in PropVals, nonce \in Nonces :
          LET cmd == Inigo("sep", <<entryID, property, value>>)
          IN  Commit("setEntryProperty", <<cmd>>, Mutated(cmd, nonce))

SetVaultAttribute ==
    /\ Len(history) < MaxHistory
    /\ \E key \in PropKeys, value \in PropVals, nonce \in Nonces :
          LET cmd == Inigo("saa", <<key, value>>)
          IN  Commit("setVaultAttribute", <<cmd>>, Mutated(cmd, nonce))

Clear ==
    /\ history' = <<>>
    /\ source' = EmptySource
    /\ call' = [op |-> "clear", cmds |-> <<>>, result |-> NoError,
                done |-> 0, fresh |-> history = <<>> /\ source = EmptySource]
    /\ trace' = <<>>
    /\ initialised' = FALSE
    /\ decoded' = NotDecoded
    /\ UNCHANGED <<readOnly, dirty, outsideEngine>>

Erase ==
    /\ source' = EmptySource
    /\ history' = <<>>
    /\ call' = [op |-> "erase", cmds |-> <<>>, result |-> NoError,
                done |-> 0, fresh |-> history = <<>> /\ source = EmptySource]
    /\ trace' = <<>>
    /\ initialised' = FALSE
    /\ decoded' = NotDecoded
    /\ UNCHANGED <<readOnly, dirty, outsideEngine>>

\* encodeRaw(history, credentials) followed by parseEncrypted(., credentials)
\* `decoded' remembers the operation the serialised history was left by
RoundTrip ==
    /\ call.op # "roundTrip"
    /\ \E password \in Passwords, impl \in CryptoImpls :
          LET parsed == parseEncrypted(encodeRaw(history, password, impl), password, impl)
          IN  decoded' = [status |-> parsed.status, lines |-> parsed.lines,
                          after |-> call.op,
                          fresh |-> call.fresh /\ call.result = NoError]
    /\ call' = [op |-> "roundTrip", cmds |-> <<>>, result |-> NoError,
                done |-> 0, fresh |-> FALSE]
    /\ trace' = <<>>
    /\ UNCHANGED <<readOnly, dirty, history, source, initialised,
                   outsideEngine>>

Next ==
    \/ SetReadOnly
    \/ MarkClean
    \/ Execute
    \/ ExecuteBatch
    \/ Initialise
    \/ GenerateID
    \/ CreateGroup
    \/ CreateEntry
    \/ DeleteEntry
    \/ DeleteGroup
    \/ MoveGroup
    \/ SetEntryProperty
    \/ SetVaultAttribute
    \/ Clear
    \/ Erase
    \/ RoundTrip

Spec == Init /\ [][Next]_vars

-----------------------------------------------------------------------------
(* The codec functions, each applied to inputs drawn from bounded sets.    *)

InitCodec ==
    /\ EngineIdle
    /\ IdleOutsideCodec
    /\ \E H \in CodecHistories, password \in CodecPasswords,
          other \in CodecPasswords, impl \in CryptoImpls :
          codec = [op |-> "input", H |-> H, password |-> password, other |-> other,
                   impl |-> impl, content |-> Plain(<<>>), out |-> NoOutput]

\* parseEncrypted(encodeRaw(H, credentials), credentials)
EncodeThenParse ==
    /\ codec.op = "input"
    /\ LET content == encodeRaw(codec.H, codec.password, codec.impl)
       IN  codec' = [codec EXCEPT
                       !.op = "encodeThenParse",
                       !.content = content,
                       !.out = parseEncrypted(content, codec.password, codec.impl)]
    /\ UNCHANGED outsideCodec

\* contents a vault file can hold: an encoded history, one without its
\* signature, signed data that is empty, and signed data never encrypted
Contents ==
    LET text == historyArrayToString(codec.H)
        encoded == encodeRaw(codec.H, codec.other, codec.impl)
    IN  { encoded, stripSignature(encoded), sign(Plain(<<>>)),
          sign(compressText(text)), sign(Plain(text)) }

\* parseEncrypted(content, credentials)
ParseEncrypted ==
    /\ codec.op = "input"
    /\ \E content \in Contents :
          codec' = [codec EXCEPT
                      !.op = "parseEncrypted",
                      !.content = content,
                      !.out = parseEncrypted(content, codec.password, codec.impl)]
    /\ UNCHANGED outsideCodec

\* decryptData(encryptData(text, password), other)
DecryptEncrypted ==
    /\ codec.op = "input"
    /\ LET text == Plain(historyArrayToString(codec.H))
           encrypted == encryptData(codec.impl, text, codec.password)
       IN  codec' = [codec EXCEPT
                       !.op = "decryptEncrypted",
                       !.content = text,
                       !.out = decryptData(codec.impl, encrypted, codec.other)]
    /\ UNCHANGED outsideCodec

\* extractSharesFromHistory(H)
ExtractShares ==
    /\ codec.op = "input"
    /\ codec' = [codec EXCEPT !.op = "extractShares",
                              !.out = extractSharesFromHistory(codec.H)]
    /\ UNCHANGED outsideCodec

NextCodec ==
    \/ EncodeThenParse
    \/ ParseEncrypted
    \/ DecryptEncrypted
    \/ ExtractShares

SpecCodec == InitCodec /\ [][NextCodec]_vars

-----------------------------------------------------------------------------
(* The attachment manager.  A call runs from one `await' to the next in    *)
(* one step; between two steps of a call any other call may take steps.    *)
(* `pc' names the promise a call is waiting for.                           *)

InitAttachments ==
    /\ EngineIdle
    /\ IdleOutsideAttachments
    /\ supports \in BOOLEAN
    /\ vaultKey = NoKey
    /\ details = [id \in AttachmentIDs |-> NoDetails]
    /\ lastPut = [id \in AttachmentIDs |-> NeverPut]
    /\ procs = [c \in Calls |-> IdleCall]

\* setAttachment(entry, attachmentID, attachmentData, name, type), up to
\* `await this.getAttachmentDetails(entry, attachmentID)'
SetAttachment ==
    \E c \in Calls, id \in AttachmentIDs, named \in BOOLEAN,
       attachmentData \in AttachmentData :
        /\ procs[c].op = "idle"
        /\ LET p == [IdleCall EXCEPT !.op = "setAttachment", !.id = id,
                                     !.named = named,
                                     !.sizeOriginal = attachmentData.sizeOriginal,
                                     !.sizeEncrypted = attachmentData.sizeEncrypted,
                                     !.noRecord = ~details[id].present]
           IN  procs' = [procs EXCEPT ![c] =
                   IF ~supports THEN Throw(p, "Unsupported")
                   ELSE IF ~named THEN Throw(p, "NameAndTypeRequired")
                   ELSE [p EXCEPT !.pc = "gotDetails", !.existing = details[id]]]
        /\ UNCHANGED <<outsideAttachments, supports, vaultKey,
                       details, lastPut>>

\* getAttachment(entry, attachmentID), up to
\* `await this.getAttachmentDetails(entry, attachmentID)'
GetAttachment ==
    \E c \in Calls, id \in AttachmentIDs :
        /\ procs[c].op = "idle"
        /\ LET p == [IdleCall EXCEPT !.op = "getAttachment", !.id = id,
                                     !.noRecord = ~details[id].present]
           IN  procs' = [procs EXCEPT ![c] =
                   IF ~supports THEN Throw(p, "Unsupported")
                   ELSE [p EXCEPT !.pc = "gotDetails", !.existing = details[id]]]
        /\ UNCHANGED <<outsideAttachments, supports, vaultKey,
                       details, lastPut>>

\* the call goes on with the details: getAttachment throws if there are
\* none; _getAttachmentsCredentials() reads the vault's attachments key and,
\* if there is none, awaits generateRandomString
GetAttachmentsCredentials ==
    \E c \in Calls :
        LET p == procs[c]
        IN  /\ p.pc = "gotDetails"
            /\ procs' = [procs EXCEPT ![c] =
                    IF p.op = "getAttachment" /\ detailsMissing(p.existing)
                    THEN Throw(p, "NotFound")
                    ELSE IF vaultKey # NoKey
                    THEN [p EXCEPT !.key = vaultKey, !.pc = "gotCredentials"]
                    ELSE [p EXCEPT !.pc = "generating"]]
            /\ UNCHANGED <<outsideAttachments, supports, vaultKey,
                           details, lastPut>>

\* generateRandomString resolves: the key is set on the vault and
\* this._source.save() is awaited
GenerateRandomStringResolved ==
    \E c \in Calls, key \in Keys :
        LET p == procs[c]
        IN  /\ p.pc = "generating"
            /\ vaultKey' = key
            /\ procs' = [procs EXCEPT ![c] =
                    [Did(Did(p, "vault.setAttribute"), "source.save")
                        EXCEPT !.key = key, !.createdKey = TRUE, !.pc = "saving"]]
            /\ UNCHANGED <<outsideAttachments, supports, details,
                           lastPut>>

\* this._source.save() settles: the vault is saved, or the save is rejected
\* and so is the call
SaveSettled ==
    \E c \in Calls, saved \in BOOLEAN :
        LET p == procs[c]
        IN  /\ p.pc = "saving"
            /\ procs' = [procs EXCEPT ![c] = saveSettled(p, saved)]
            /\ UNCHANGED <<outsideAttachments, supports, vaultKey, details,
                           lastPut>>

\* setAttachment with its credentials: the data is encrypted, the size
\* increase computed and getAvailableStorage() awaited
GetAvailableStorage ==
    \E c \in Calls :
        LET p == procs[c]
        IN  /\ p.op = "setAttachment"
            /\ p.pc = "gotCredentials"
            /\ procs' = [procs EXCEPT ![c] =
                    [p EXCEPT !.sizeIncrease = sizeIncrease(p.existing, p.sizeEncrypted),
                              !.pc = "storage"]]
            /\ UNCHANGED <<outsideAttachments, supports, vaultKey,
                           details, lastPut>>

\* getAvailableStorage() resolves: the call is rejected for want of space,
\* or datasource.putAttachment is called and awaited
PutAttachment ==
    \E c \in Calls, spaceAvailable \in AvailableStorage :
        LET p == [procs[c] EXCEPT !.short = spaceAvailable.limited
                                      /\ spaceAvailable.bytes < procs[c].sizeIncrease,
                                  !.spaceAvailable = spaceAvailable]
            tooBig == notEnoughSpace(spaceAvailable, p.sizeIncrease)
        IN  /\ p.pc = "storage"
            /\ procs' = [procs EXCEPT ![c] =
                    IF tooBig THEN Throw(p, "OutOfSpace")
                    ELSE [Did(p, "datasource.putAttachment") EXCEPT !.pc = "putting"]]
            /\ lastPut' = IF tooBig THEN lastPut
                           ELSE [lastPut EXCEPT ![p.id] =
                                    [present |-> TRUE, size |-> p.sizeEncrypted,
                                     key |-> p.key]]
            /\ UNCHANGED <<outsideAttachments, supports, vaultKey,
                           details>>

\* putAttachment resolves: the details are set on the entry
PutAttachmentResolved ==
    \E c \in Calls :
        LET p == procs[c]
        IN  /\ p.pc = "putting"
            /\ details' = [details EXCEPT ![p.id] =
                              Details(p.sizeOriginal, p.sizeEncrypted)]
            /\ procs' = [procs EXCEPT ![c] =
                    [Did(p, "entry.setAttribute") EXCEPT !.pc = "done", !.result = "ok"]]
            /\ UNCHANGED <<outsideAttachments, supports, vaultKey,
                           lastPut>>

\* getAttachment with its credentials: datasource.getAttachment is awaited
DatasourceGetAttachment ==
    \E c \in Calls :
        LET p == procs[c]
        IN  /\ p.op = "getAttachment"
            /\ p.pc = "gotCredentials"
            /\ procs' = [procs EXCEPT ![c] =
                    [Did(p, "datasource.getAttachment") EXCEPT !.pc = "getting"]]
            /\ UNCHANGED <<outsideAttachments, supports, vaultKey,
                           details, lastPut>>

\* datasource.getAttachment resolves: the data is decrypted with the
\* credentials of this call
DecryptAttachment ==
    \E c \in Calls :
        LET p == procs[c]
            readable == lastPut[p.id].present /\ lastPut[p.id].key = p.key
        IN  /\ p.pc = "getting"
            /\ procs' = [procs EXCEPT ![c] =
                    [p EXCEPT !.pc = "done",
                              !.result = IF readable THEN "ok" ELSE "DecryptError"]]
            /\ UNCHANGED <<outsideAttachments, supports, vaultKey,
                           details, lastPut>>

\* the caller has the outcome of a call; another call can be made
Settled ==
    \E c \in Calls :
        /\ procs[c].pc = "done"
        /\ procs' = [procs EXCEPT ![c] = IdleCall]
        /\ UNCHANGED <<outsideAttachments, supports, vaultKey,
                       details, lastPut>>

NextAttachments ==
    \/ SetAttachment
    \/ GetAttachment
    \/ GetAttachmentsCredentials
    \/ GenerateRandomStringResolved
    \/ SaveSettled
    \/ GetAvailableStorage
    \/ PutAttachment
    \/ PutAttachmentResolved
    \/ DatasourceGetAttachment
    \/ DecryptAttachment
    \/ Settled

SpecAttachments == InitAttachments /\ [][NextAttachments]_vars

-----------------------------------------------------------------------------
(* The crypto resource modules: random strings and derivation rounds, the  *)
(* latter a setting of the loaded module that lasts from call to call.     *)
(* A string over CRYPTO_RANDOM_STRING_CHARS is the sequence of the         *)
(* alphabet indices of its characters; an index outside the alphabet is    *)
(* the text "undefined" that the template string renders for it.           *)

UINT16_MAX == 65535
\* CRYPTO_RANDOM_STRING_CHARS.length: A-Z a-z 0-9
randCharsLen == 62
\* CRYPTO_PBKDF2_ROUNDS
CRYPTO_PBKDF2_ROUNDS == 250000
\* "undefined".length
UndefinedLength == 9

\* longest random string asked for
MaxKeyLength == 2

\* an index computation that rounds to the nearest index: Math.round
ind_rounding(nextVal) ==
    (2 * nextVal * randCharsLen + UINT16_MAX) \div (2 * UINT16_MAX)

\* Math.floor((nextVal / UINT16_MAX) * randCharsLen)
ind(nextVal) == (nextVal * randCharsLen) \div UINT16_MAX

\* the characters an index adds to the output
TextLength(index) == IF index \in 0..(randCharsLen - 1) THEN 1 ELSE UndefinedLength

\* new Uint16Array(length): `length' zeros, never filled
randArr(length) == [i \in 1..length |-> 0]

\* crypto/v1/randomString: the strings a call can resolve to
randomString(impl, length) ==
    IF impl = "web"
    THEN {[i \in 1..length |-> ind(randArr(length)[i])]}
    ELSE [1..length -> 0..(randCharsLen - 1)]

\* the argument of setDerivationRounds: a number, or null (the default)
NoRounds == [number |-> FALSE, n |-> 0]
Rounds(n) == [number |-> TRUE, n |-> n]
RoundsArguments == {NoRounds} \cup {Rounds(n) : n \in {0, 0 - 1, 1000, 300000}}

\* !rounds ? CRYPTO_PBKDF2_ROUNDS : rounds
setDerivationRounds(rounds) ==
    IF ~rounds.number \/ rounds.n = 0 THEN CRYPTO_PBKDF2_ROUNDS ELSE rounds.n

\* how encryptData derives its key: not at all, with the adapter's own
\* default number of rounds, or with a number set on the adapter
NoDerivation == [derives |-> FALSE, set |-> FALSE, n |-> 0]
AdapterDefault == [derives |-> TRUE, set |-> FALSE, n |-> 0]
DerivesWith(n) == [derives |-> TRUE, set |-> TRUE, n |-> n]

\* the key derivation of encryptData in the three modules
derivation(impl, override, password) ==
    CASE impl = "native" -> NoDerivation
      [] impl = "node" /\ password \in NonStringPasswords -> NoDerivation
      [] OTHER -> IF override > 0 THEN DerivesWith(override) ELSE AdapterDefault

InitCrypto ==
    /\ EngineIdle
    /\ IdleOutsideCrypto
    /\ \E impl \in CryptoImpls :
          crypto = [op |-> "loaded", impl |-> impl, override |-> CRYPTO_PBKDF2_ROUNDS,
                    rounds |-> NoRounds, called |-> FALSE,
                    password |-> "pw1", derived |-> NoDerivation]

\* setDerivationRounds(rounds)
SetDerivationRounds ==
    /\ \E rounds \in RoundsArguments :
          crypto' = [crypto EXCEPT !.op = "setDerivationRounds",
                                   !.override = setDerivationRounds(rounds),
                                   !.rounds = rounds, !.called = TRUE]
    /\ UNCHANGED outsideCrypto

\* encryptData(data, password)
EncryptData ==
    /\ \E password \in CodecPasswords :
          crypto' = [crypto EXCEPT
                       !.op = "encryptData", !.password = password,
                       !.derived = derivation(crypto.impl, crypto.override, password)]
    /\ UNCHANGED outsideCrypto

NextCrypto ==
    \/ SetDerivationRounds
    \/ EncryptData

SpecCrypto == InitCrypto /\ [][NextCrypto]_vars

-----------------------------------------------------------------------------
(* The functions of the search module.  A host is the sequence of its      *)
(* characters.                                                             *)

\* longest host drawn
MaxDomainLength == 3
DomainChars == {"a", "b"}
Domains == UNION {[1..n -> DomainChars] : n \in 1..MaxDomainLength}

\* String.prototype.indexOf: where searchString first occurs in str, from 0,
\* or -1
indexOf(str, searchString) ==
    LET at == {i \in 0..(Len(str) - Len(searchString)) :
                  SubSeq(str, i + 1, i + Len(searchString)) = searchString}
    IN  IF at = {} THEN 0 - 1 ELSE CHOOSE i \in at : \A j \in at : i <= j

domainsRelated(domain1, domain2) ==
    IF domain1 = domain2 THEN TRUE
    ELSE IF Len(domain1) > Len(domain2)
         THEN indexOf(domain1, domain2) = Len(domain1) - Len(domain2)
         ELSE indexOf(domain2, domain1) = Len(domain2) - Len(domain1)

\* largest domain hit count and largest Levenshtein distance of a result
MaxScore == 2
\* most results sorted together
MaxResults == 2

\* what searchByURL sorts: the domain hit count and the distance of an item
ScoredResults == [domainScore : 0..MaxScore, score : 0..MaxScore]

\* the comparator searchByURL hands to sort
compare(a, b) ==
    IF a.domainScore > b.domainScore THEN 0 - 1
    ELSE IF b.domainScore > b.domainScore THEN 1
    ELSE IF a.score > b.score THEN 1
    ELSE IF b.score > a.score THEN 0 - 1
    ELSE 0

\* Array.prototype.sort: the orders it can leave the results in.  Which of
\* compare(x, y) and compare(y, x) it asks for a pair is the engine's choice,
\* so an order is possible when one of the two answers allows each of its
\* neighbouring pairs
sort(results) ==
    {[i \in DOMAIN results |-> results[p[i]]] : p \in
        {q \in Permutations(DOMAIN results) :
            \A i \in 1..(Len(results) - 1) :
                \/ compare(results[q[i]], results[q[i + 1]]) <= 0
                \/ compare(results[q[i + 1]], results[q[i]]) >= 0}}

\* A URL is the sequence of its parts: the scheme with its "://", then
\* characters of which "/" is one.
Schemes == {"https://"}
URL_a == <<"https://", "a">>
URL_ba == <<"b", "a", "/", "b">>
URL_b == <<"https://", "b">>
URL_path == <<"/", "a">>
URLs == {URL_a, URL_ba, URL_b, URL_path}

\* the characters of str before its first "/"
RECURSIVE UpToSlash(_)
UpToSlash(str) ==
    IF str = <<>> \/ Head(str) = "/" THEN <<>>
    ELSE <<Head(str)>> \o UpToSlash(Tail(str))

\* /^((https?|ftp):\/\/)?([^\/]+)/i: the host, or "" (here <<>>) without one
extractDomain(str) ==
    IF str # <<>> /\ Head(str) \in Schemes THEN UpToSlash(Tail(str))
    ELSE UpToSlash(str)

\* fast-levenshtein: the edit distance of two texts, counted in parts
RECURSIVE levenshtein(_, _)
levenshtein(s, t) ==
    IF s = <<>> THEN Len(t)
    ELSE IF t = <<>> THEN Len(s)
    ELSE LET substituted == levenshtein(Tail(s), Tail(t))
                                + (IF Head(s) = Head(t) THEN 0 ELSE 1)
             deleted == levenshtein(Tail(s), t) + 1
             inserted == levenshtein(s, Tail(t)) + 1
             least == IF deleted < inserted THEN deleted ELSE inserted
         IN  IF substituted < least THEN substituted ELSE least

\* the vaults a Search is built over, and their entries
_vaults == <<"v1", "v2">>
SearchEntryIDs == {"e1", "e2"}
\* vault.getAllEntries(), in order
getAllEntries(vaultID) == IF vaultID = "v1" THEN <<"e1">> ELSE <<"e2">>
\* getEntryURLs(entry.getProperties(), EntryURLType.General)
getEntryURLs(entryID) == IF entryID = "e1" THEN <<URL_a>> ELSE <<URL_ba, URL_path>>

\* what the store holds under bcup_search_<vaultID>: nothing, a text that is
\* no JSON, or the JSON of a score map
NoValue == [kind |-> "none", map |-> <<>>]
NotJSON == [kind |-> "text", map |-> <<>>]
ScoreJSON(map) == [kind |-> "json", map |-> map]

\* let vaultScore = {}; if (scoresRaw) try { JSON.parse } catch {}
parseScores(scoresRaw) == scoresRaw.map

\* scores[key] || 0
ScoreOr0(scores, key) == IF key \in DOMAIN scores THEN scores[key] ELSE 0

\* a score that is set to 1 whatever it was
bumped_once(existing) == 1

\* existing ? existing + 1 : 1
bumped(existing) == IF existing # 0 THEN existing + 1 ELSE 1

\* vaultScore[entryID][domain] incremented in the parsed map
incremented(vaultScore, entryID, domain) ==
    LET old == IF entryID \in DOMAIN vaultScore THEN vaultScore[entryID] ELSE <<>>
        new == [d \in DOMAIN old \cup {domain} |->
                   IF d = domain THEN bumped(ScoreOr0(old, domain)) ELSE old[d]]
    IN  [e \in DOMAIN vaultScore \cup {entryID} |->
            IF e = entryID THEN new ELSE vaultScore[e]]

\* the entries of a vault pushed to the index, those in the trash as well
processed_withTrash(vaultID, trash, vaultScore) ==
    [i \in DOMAIN getAllEntries(vaultID) |->
        [id |-> getAllEntries(vaultID)[i], vaultID |-> vaultID,
         urls |-> getEntryURLs(getAllEntries(vaultID)[i]),
         domainScores |-> IF getAllEntries(vaultID)[i] \in DOMAIN vaultScore
                          THEN vaultScore[getAllEntries(vaultID)[i]] ELSE <<>>]]

\* the entries of a vault that prepare pushes to the index
processed(vaultID, trash, vaultScore) ==
    LET kept == SelectSeq(getAllEntries(vaultID), LAMBDA e : e \notin trash)
    IN  [i \in DOMAIN kept |->
            [id |-> kept[i], vaultID |-> vaultID, urls |-> getEntryURLs(kept[i]),
             domainScores |-> IF kept[i] \in DOMAIN vaultScore
                              THEN vaultScore[kept[i]] ELSE <<>>]]

\* the URLs of an entry whose host is related to the incoming one
relatedURLs(urls, incomingDomain) ==
    {i \in DOMAIN urls : /\ extractDomain(urls[i]) # <<>>
                         /\ domainsRelated(extractDomain(urls[i]), incomingDomain)}

\* the first of the related URLs with the least distance to url
bestURL(urls, url, incomingDomain) ==
    CHOOSE i \in relatedURLs(urls, incomingDomain) :
        \A j \in relatedURLs(urls, incomingDomain) :
            \/ levenshtein(urls[i], url) < levenshtein(urls[j], url)
            \/ levenshtein(urls[i], url) = levenshtein(urls[j], url) /\ i <= j

\* searchByURL before the sort: the entries with a related URL, scored
scoredByURL(entries, url) ==
    LET incomingDomain == extractDomain(url)
        hits == SelectSeq(entries,
                          LAMBDA item : relatedURLs(item.urls, incomingDomain) # {})
    IN  [i \in DOMAIN hits |->
            LET best == hits[i].urls[bestURL(hits[i].urls, url, incomingDomain)]
                byIncoming == ScoreOr0(hits[i].domainScores, incomingDomain)
                byResult == ScoreOr0(hits[i].domainScores, extractDomain(best))
            IN  [item |-> hits[i], score |-> levenshtein(best, url), url |-> best,
                 domainScore |-> IF byIncoming > byResult THEN byIncoming
                                 ELSE byResult]]

\* searchByURL(url): the orders of items it can return
searchByURL(entries, url) ==
    IF extractDomain(url) = <<>> THEN {<<>>}
    ELSE {[i \in DOMAIN sorted |-> sorted[i].item] :
             sorted \in sort(scoredByURL(entries, url))}

\* the searcher built by the factory: search(term) returns some of the items
\* it was built over
fuseSearch(items) ==
    {SelectSeq(items, LAMBDA item : item.id \in found) :
        found \in SUBSET {items[i].id : i \in DOMAIN items}}

-----------------------------------------------------------------------------
(* Merging and flattening of histories.                                    *)

\* longest history handed to prepareHistoryForMerge
MaxMergeLines == 3

\* the commands the manifest marks destructive
DestructiveSlugs == {"dgr", "dga", "den", "dep", "dem", "dea", "daa"}

\* the opcode of a history line
getCommandType(command) == command[1]

\* history.filter(command => the opcode of command is not destructive)
stripDestructiveCommands(h) ==
    SelectSeq(h, LAMBDA command : getCommandType(command) \notin DestructiveSlugs)

\* a merge preparation that hands the history back as it is
prepareHistoryForMerge_unstripped(h) == h

\* VaultFormatA.prepareHistoryForMerge
prepareHistoryForMerge(h) == stripDestructiveCommands(h)

\* the lines of the histories prepared for a merge
MergeLines ==
    {Inigo("cgr", <<"0", "g1">>), Inigo("tgr", <<"g1", "x">>),
     Inigo("mgr", <<"g1", "g2">>), Inigo("sep", <<"e1", "k", "x">>),
     Inigo("cmm", <<"x">>), Inigo("dgr", <<"g1">>), Inigo("den", <<"e1">>),
     Inigo("dep", <<"e1", "k">>), Inigo("dem", <<"e1", "k">>),
     Inigo("dea", <<"e1", "k">>), Inigo("dga", <<"g1", "k">>),
     Inigo("daa", <<"k">>)}

\* longest run of commands that follows the construction of a vault in the
\* histories handed to optimise
MaxFlattenLines == 3
\* the history length from which a history is flattened whatever it holds
FlattenThreshold == 1000

\* the history as replayed against a fresh vault
Replayed(h) == forEachCommand(Engine(<<>>, EmptySource, FALSE), h)

\* the command that sets each of the given keys of an attribute map
RECURSIVE SetEach(_, _, _, _)
SetEach(slug, target, map, keys) ==
    IF keys = {} THEN <<>>
    ELSE LET k == CHOOSE x \in keys : TRUE
         IN  <<Inigo(slug, target \o <<k, map[k]>>)>>
               \o SetEach(slug, target, map, keys \ {k})

\* the set keys of an attribute map, each with the command that sets it
SetCommands(slug, target, map) ==
    SetEach(slug, target, map, {k \in DOMAIN map : map[k] # NoVal})

\* the groups beneath parentID in pre-order, each with its commands
RECURSIVE DescribeGroups(_, _, _)
DescribeGroups(src, parentID, depth) ==
    IF depth = 0 THEN <<>>
    ELSE LET children == SelectSeq(src.groups, LAMBDA g : g.parent = parentID)
             Describe[i \in 0..Len(children)] ==
                 IF i = 0 THEN <<>>
                 ELSE LET g == children[i]
                      IN  Describe[i - 1]
                            \o <<Inigo("cgr", <<parentID, g.id>>)>>
                            \o (IF g.title = NoVal THEN <<>>
                                ELSE <<Inigo("tgr", <<g.id, g.title>>)>>)
                            \o SetCommands("sga", <<g.id>>, g.attributes)
                            \o DescribeGroups(src, g.id, depth - 1)
         IN  Describe[Len(children)]

\* the entries, each with its commands
DescribeEntries(src) ==
    LET Describe[i \in 0..Len(src.entries)] ==
            IF i = 0 THEN <<>>
            ELSE LET e == src.entries[i]
                 IN  Describe[i - 1]
                       \o <<Inigo("cen", <<e.parent, e.id>>)>>
                       \o SetCommands("sep", <<e.id>>, e.properties)
                       \o SetCommands("sea", <<e.id>>, e.attributes)
    IN  Describe[Len(src.entries)]

\* Flattener.canBeFlattened()
canBeFlattened(h) ==
    \/ Len(h) >= FlattenThreshold
    \/ \E i \in DOMAIN h : getCommandType(h[i]) \in DestructiveSlugs

\* Flattener.flatten(): the tree of the replayed history re-emitted as the
\* commands that construct it
flatten(h) ==
    LET src == Replayed(h).source
    IN  (IF src.format = NoVal THEN <<>> ELSE <<Inigo("fmt", <<src.format>>)>>)
          \o (IF src.id = NoVal THEN <<>> ELSE <<Inigo("aid", <<src.id>>)>>)
          \o SetCommands("saa", <<>>, src.attributes)
          \o DescribeGroups(src, RootID, Len(src.groups))
          \o DescribeEntries(src)

\* an optimise that flattens whatever canBeFlattened answers
optimise_always(h) == flatten(h)

\* VaultFormatA.optimise()
optimise(h) == IF canBeFlattened(h) THEN flatten(h) ELSE h

\* the commands that construct the vault the histories begin with
Construction ==
    <<Inigo("fmt", <<FormatTag>>), Inigo("aid", <<"v1">>),
      Inigo("cgr", <<RootID, "g1">>), Inigo("tgr", <<"g1", "x">>),
      Inigo("cgr", <<"g1", "g2">>), Inigo("cen", <<"g1", "e1">>),
      Inigo("sep", <<"e1", "k", "x">>)>>

\* the commands that follow the construction
FlattenLines ==
    {Inigo("sga", <<"g1", "k", "x">>), Inigo("sea", <<"e1", "k", "x">>),
     Inigo("saa", <<"k", "x">>), Inigo("mgr", <<"g2", RootID>>),
     Inigo("men", <<"e1", "g2">>), Inigo("pad", <<"n1">>),
     Inigo("dgr", <<"g1">>), Inigo("dgr", <<"g2">>), Inigo("den", <<"e1">>),
     Inigo("dep", <<"e1", "k">>), Inigo("dea", <<"e1", "k">>),
     Inigo("dga", <<"g1", "k">>), Inigo("daa", <<"k">>)}

\* the histories of a vault: those that replay without an error
FlattenHistories ==
    {h \in {before \o after :
                before \in {<<>>, Construction},
                after \in UNION {[1..n -> FlattenLines] : n \in 0..MaxFlattenLines}} :
        Replayed(h).err = NoError}

-----------------------------------------------------------------------------
(* Facade detection.  A value is null, undefined, a text, or a mapping     *)
(* from some field names to values, each value with its type.              *)

Text(v) == [t |-> "string", v |-> v]
Number(v) == [t |-> "number", v |-> v]
EmptyArray == [t |-> "array", v |-> <<>>]

Null == [kind |-> "null", fields |-> <<>>]
Undefined == [kind |-> "undefined", fields |-> <<>>]
Mapping(fields) == [kind |-> "object", fields |-> fields]

\* the values a field of a drawn mapping can hold; the first of each is
\* that of a facade
FieldValues(field) ==
    CASE field = "type" -> {Text("vault"), Text("entry")}
      [] field = "id" -> {Text("1"), Number(1)}
      [] OTHER -> {EmptyArray}

FacadeFields == {"type", "id", "groups", "entries"}

\* the values handed to isVaultFacade
FacadeValues ==
    {Null, Undefined, [kind |-> "string", fields |-> <<>>]}
        \cup {Mapping(fields) : fields \in
                 UNION {{f \in [present -> UNION {FieldValues(x) : x \in FacadeFields}] :
                            \A x \in present : f[x] \in FieldValues(x)} :
                        present \in SUBSET FacadeFields}}

\* a detection that does not look at the id
isVaultFacade_withoutId(x) ==
    /\ x.kind = "object"
    /\ {"type", "groups", "entries"} \subseteq DOMAIN x.fields
    /\ x.fields["type"] = Text("vault")

\* isVaultFacade(obj)
isVaultFacade(x) ==
    IF x.kind # "object" THEN FALSE
    ELSE IF ~(FacadeFields \subseteq DOMAIN x.fields) THEN FALSE
    ELSE x.fields["type"] = Text("vault") /\ x.fields["id"].t = "string"

-----------------------------------------------------------------------------
(* The functions outside the classes, each applied once to arguments drawn *)
(* from bounded sets.                                                      *)

InitFunctions ==
    /\ EngineIdle
    /\ IdleOutsideFunctions
    /\ \/ \E nextVal \in 0..UINT16_MAX :
             applied = [op |-> "drawn", fn |-> "ind", nextVal |-> nextVal]
       \/ \E impl \in CryptoImpls, length \in 0..MaxKeyLength :
             applied = [op |-> "drawn", fn |-> "randomString", impl |-> impl,
                        length |-> length]
       \/ \E a \in ScoredResults, b \in ScoredResults :
             applied = [op |-> "drawn", fn |-> "compare", a |-> a, b |-> b]
       \/ \E n \in 0..MaxResults : \E results \in [1..n -> ScoredResults] :
             applied = [op |-> "drawn", fn |-> "sort", results |-> results]
       \/ \E n \in 0..MaxMergeLines : \E h \in [1..n -> MergeLines] :
             applied = [op |-> "drawn", fn |-> "prepareHistoryForMerge",
                        history |-> h]
       \/ \E h \in FlattenHistories :
             applied = [op |-> "drawn", fn |-> "optimise", history |-> h]
       \/ \E x \in FacadeValues :
             applied = [op |-> "drawn", fn |-> "isVaultFacade", x |-> x]
       \/ \E domain1 \in Domains, domain2 \in Domains :
             applied = [op |-> "drawn", fn |-> "domainsRelated",
                        domain1 |-> domain1, domain2 |-> domain2]

\* one step of the reduce of randomString
Ind ==
    /\ applied.op = "drawn"
    /\ applied.fn = "ind"
    /\ applied' = [applied EXCEPT !.op = "applied"] @@ [out |-> ind(applied.nextVal)]
    /\ UNCHANGED outsideFunctions

\* randomString(length)
RandomString ==
    /\ applied.op = "drawn"
    /\ applied.fn = "randomString"
    /\ \E out \in randomString(applied.impl, applied.length) :
          applied' = [applied EXCEPT !.op = "applied"] @@ [out |-> out]
    /\ UNCHANGED outsideFunctions

\* domainsRelated(domain1, domain2)
DomainsRelated ==
    /\ applied.op = "drawn"
    /\ applied.fn = "domainsRelated"
    /\ applied' = [applied EXCEPT !.op = "applied"]
                      @@ [out |-> domainsRelated(applied.domain1, applied.domain2)]
    /\ UNCHANGED outsideFunctions

\* the comparator of searchByURL, asked both ways
Compare ==
    /\ applied.op = "drawn"
    /\ applied.fn = "compare"
    /\ applied' = [applied EXCEPT !.op = "applied"]
                      @@ [ab |-> compare(applied.a, applied.b),
                          ba |-> compare(applied.b, applied.a)]
    /\ UNCHANGED outsideFunctions

\* searchByURL: results.sort(compare)
Sort ==
    /\ applied.op = "drawn"
    /\ applied.fn = "sort"
    /\ \E out \in sort(applied.results) :
          applied' = [applied EXCEPT !.op = "applied"] @@ [out |-> out]
    /\ UNCHANGED outsideFunctions

\* VaultFormatA.prepareHistoryForMerge(history)
PrepareHistoryForMerge ==
    /\ applied.op = "drawn"
    /\ applied.fn = "prepareHistoryForMerge"
    /\ applied' = [applied EXCEPT !.op = "applied"]
                      @@ [out |-> prepareHistoryForMerge(applied.history)]
    /\ UNCHANGED outsideFunctions

\* VaultFormatA.optimise()
Optimise ==
    /\ applied.op = "drawn"
    /\ applied.fn = "optimise"
    /\ applied' = [applied EXCEPT !.op = "applied"]
                      @@ [out |-> optimise(applied.history)]
    /\ UNCHANGED outsideFunctions

\* isVaultFacade(x)
IsVaultFacade ==
    /\ applied.op = "drawn"
    /\ applied.fn = "isVaultFacade"
    /\ applied' = [applied EXCEPT !.op = "applied"]
                      @@ [out |-> isVaultFacade(applied.x)]
    /\ UNCHANGED outsideFunctions

NextFunctions ==
    \/ Ind
    \/ RandomString
    \/ DomainsRelated
    \/ Compare
    \/ Sort
    \/ PrepareHistoryForMerge
    \/ Optimise
    \/ IsVaultFacade

SpecFunctions == InitFunctions /\ [][NextFunctions]_vars

-----------------------------------------------------------------------------
(* A Search over two vaults and a key/value store.  prepare and            *)
(* incrementScore are asynchronous: each takes a step per await, and the   *)
(* vaults, the store and the searches move between the steps.              *)

\* most incrementScore calls of a behaviour
MaxCalls == 2

\* the score maps the store can hold at the start
InitialStores ==
    {[v \in {"v1", "v2"} |-> NoValue],
     [v \in {"v1", "v2"} |-> IF v = "v1" THEN NotJSON ELSE NoValue]}

\* the arguments incrementScore is called with
IncrementArguments ==
    {[vaultID |-> "v1", entryID |-> "e1", url |-> URL_a],
     [vaultID |-> "v1", entryID |-> "e1", url |-> URL_path],
     [vaultID |-> "v2", entryID |-> "e1", url |-> URL_a]}

NoPrepare == [pc |-> "idle", at |-> 0]
NoIncrement == [pc |-> "idle"]

\* the score the store holds for an entry and a host of a vault
storedScore(store, vaultID, entryID, domain) ==
    LET vaultScore == parseScores(store[vaultID])
    IN  IF entryID \in DOMAIN vaultScore
        THEN ScoreOr0(vaultScore[entryID], domain) ELSE 0

\* new Search(vaults, memory, searcherFactory)
InitSearch ==
    /\ EngineIdle
    /\ IdleOutsideSearch
    /\ \E store \in InitialStores, trash \in SUBSET SearchEntryIDs :
          search = [op |-> "constructor", trash |-> trash, store |-> store,
                    _entries |-> <<>>, _fuse |-> [built |-> FALSE, items |-> <<>>],
                    _results |-> <<>>,
                    prep |-> NoPrepare, inTrashAtRead |-> {},
                    inc |-> NoIncrement, log |-> <<>>]

\* an entry is moved to the trash or out of it
MoveEntry ==
    /\ \E e \in SearchEntryIDs :
          search' = [search EXCEPT
                       !.trash = IF e \in @ THEN @ \ {e} ELSE @ \cup {e}]
    /\ UNCHANGED outsideSearch

\* incrementScore(vaultID, entryID, url) up to its first await
IncrementScore ==
    /\ search.inc.pc = "idle"
    /\ Len(search.log) < MaxCalls
    /\ \E args \in IncrementArguments :
          search' = [search EXCEPT
                       !.inc = [pc |-> "getValue", args |-> args, before |-> 0]]
    /\ UNCHANGED outsideSearch

\* incrementScore from the value of the store to its return or its setValue
IncrementScoreGotValue ==
    /\ search.inc.pc = "getValue"
    /\ LET c == search.inc.args
           vaultScore == parseScores(search.store[c.vaultID])
           domain == extractDomain(c.url)
           before == storedScore(search.store, c.vaultID, c.entryID, domain)
       IN  IF domain = <<>>
           THEN search' = [search EXCEPT
                             !.inc = NoIncrement,
                             !.log = Append(@, [args |-> c, wrote |-> FALSE,
                                                before |-> before,
                                                after |-> before])]
           ELSE search' = [search EXCEPT
                             !.inc = [@ EXCEPT !.pc = "setValue",
                                               !.before = before],
                             !.store[c.vaultID] =
                                 ScoreJSON(incremented(vaultScore, c.entryID, domain))]
    /\ UNCHANGED outsideSearch

\* the setValue of incrementScore resolved: the call returns
IncrementScoreSetValue ==
    /\ search.inc.pc = "setValue"
    /\ LET c == search.inc.args
       IN  search' = [search EXCEPT
                        !.inc = NoIncrement,
                        !.log = Append(@, [args |-> c, wrote |-> TRUE,
                                           before |-> search.inc.before,
                                           after |-> storedScore(search.store,
                                                        c.vaultID, c.entryID,
                                                        extractDomain(c.url))])]
    /\ UNCHANGED outsideSearch

\* prepare() up to the getValue of the first vault
Prepare ==
    /\ search.prep.pc = "idle"
    /\ search' = [search EXCEPT
                    !.op = "prepare",
                    !._entries = <<>>,
                    !.inTrashAtRead = {},
                    !.prep = [pc |-> "getValue", at |-> 1]]
    /\ UNCHANGED outsideSearch

\* prepare from the scores of a vault to the getValue of the next vault, or
\* to the searcher built after the last
PrepareVault ==
    /\ search.prep.pc = "getValue"
    /\ LET vaultID == _vaults[search.prep.at]
           last == search.prep.at = Len(_vaults)
           entries == search._entries
                          \o processed(vaultID, search.trash,
                                       parseScores(search.store[vaultID]))
       IN  search' = [search EXCEPT
              !.op = "prepare",
              !._entries = entries,
              !.inTrashAtRead =
                  @ \cup {e \in search.trash :
                             \E i \in DOMAIN getAllEntries(vaultID) :
                                 getAllEntries(vaultID)[i] = e},
              !._fuse = IF last THEN [built |-> TRUE, items |-> entries] ELSE @,
              !.prep = IF last THEN NoPrepare
                       ELSE [pc |-> "getValue", at |-> search.prep.at + 1]]
    /\ UNCHANGED outsideSearch

\* searchByTerm(term)
SearchByTerm ==
    /\ IF ~search._fuse.built
       THEN search' = [search EXCEPT !.op = "searchByTerm threw"]
       ELSE \E results \in fuseSearch(search._fuse.items) :
               search' = [search EXCEPT !.op = "searchByTerm", !._results = results]
    /\ UNCHANGED outsideSearch

\* searchByURL(url)
SearchByURL ==
    /\ \E url \in URLs : \E results \in searchByURL(search._entries, url) :
          search' = [search EXCEPT !.op = "searchByURL", !._results = results]
    /\ UNCHANGED outsideSearch

NextSearch ==
    \/ MoveEntry
    \/ IncrementScore
    \/ IncrementScoreGotValue
    \/ IncrementScoreSetValue
    \/ Prepare
    \/ PrepareVault
    \/ SearchByTerm
    \/ SearchByURL

SpecSearch == InitSearch /\ [][NextSearch]_vars

-----------------------------------------------------------------------------
(* Vocabulary of the properties.                                           *)

\* the operations that go through execute()
ExecuteOps ==
    {"execute", "executeBatch", "initialise", "generateID", "createGroup",
     "createEntry", "deleteEntry", "deleteGroup", "moveGroup",
     "setEntryProperty", "setVaultAttribute"}

\* those that call execute() exactly once
SingleCallOps == ExecuteOps \ {"initialise"}

\* the opcode of a line, behind its share prefix if it has one
OpcodeOf(line) ==
    LET words == IF SHARE_COMMAND_EXP(line) THEN Tail(line) ELSE line
    IN  IF words = <<>> THEN "" ELSE words[1]

\* a line whose command is `pad'
IsPaddingLine(line) == OpcodeOf(line) = "pad"

NonPadding(lines) == SelectSeq(lines, LAMBDA line : ~IsPaddingLine(line))

IsPrefix(s, t) == Len(s) <= Len(t) /\ SubSeq(t, 1, Len(s)) = s

Occurrences(seq, x) == Cardinality({i \in 1..Len(seq) : seq[i] = x})

\* the executor of `command' throws on the tree src
ExecutorFails(src, command) ==
    LET isShare == SHARE_COMMAND_EXP(command)
        words == IF isShare THEN Tail(command) ELSE command
    IN  /\ VALID_COMMAND_EXP(words)
        /\ ~COMMANDS(words[1], src, IF isShare THEN ShareIDOf(command[1]) ELSE NoShare,
                     Tail(words)).ok

-----------------------------------------------------------------------------
(* Properties.                                                             *)

\* C1: while readOnly is true, execute() and every mutator that delegates to
\* it throws the read-only error, leaves history, tree and dirty flag as they
\* were and emits no commandsExecuted event.
C1_ReadOnlyRejectsExecute ==
    [][ (readOnly /\ call'.op \in ExecuteOps) =>
            /\ call'.result = "ReadOnly"
            /\ UNCHANGED <<history, source, dirty>>
            /\ Occurrences(trace', "commandsExecuted") = 0 ]_vars

C1_Witness ==
    /\ readOnly
    /\ call.op = "createGroup"
    /\ call.result = "ReadOnly"
    /\ history # <<>>

\* C2: a command whose executor fails is not appended to history and leaves
\* the tree as it was before that command, and the call throws: history and
\* tree are those left by the commands of the call before the failing one.
C2_ExecuteAtomicPerCommand ==
    [][ (call'.op \in SingleCallOps /\ ~readOnly) =>
            LET before == Engine(history, source, dirty)
                passed == forEachCommand(before, SubSeq(call'.cmds, 1, call'.done))
            IN  /\ (Len(call'.cmds) = 1 /\ ExecutorFails(source, call'.cmds[1])) =>
                       /\ call'.result = "ExecutorError"
                       /\ UNCHANGED <<history, source>>
                /\ call'.result = "ExecutorError" =>
                       /\ call'.done < Len(call'.cmds)
                       /\ history' = passed.history
                       /\ source' = passed.source ]_vars

C2_Witness ==
    /\ call.op = "executeBatch"
    /\ call.result = "ExecutorError"
    /\ call.done = 1
    /\ call.cmds[2] = <<"cen", "g1", "e1">>
    /\ source.groups = <<>>
    /\ Len(history) >= 3

\* C3: history never contains two adjacent padding lines.
C3_NoAdjacentPadding ==
    \A i \in 1..(Len(history) - 1) :
        ~(IsPaddingLine(history[i]) /\ IsPaddingLine(history[i + 1]))

\* C4: after an execute() call that returns normally the last line of history
\* is a padding line; a last command that is not a `pad' is followed by exactly
\* one padding line, and after a last command that is a `pad' no line is added.
C4_PaddingAfterExecute ==
    [][ (call'.op \in ExecuteOps /\ call'.result = NoError) =>
            /\ history' # <<>>
            /\ PadTest(Last(history'))
            /\ (call'.op \in SingleCallOps /\ call'.cmds # <<>>) =>
                   LET lastCommand == Last(call'.cmds)
                       added == Len(history') - Len(history)
                   IN  IF PadTest(lastCommand)
                       THEN added <= Len(call'.cmds)
                       ELSE /\ added >= 2
                            /\ added <= Len(call'.cmds) + 1
                            /\ history'[Len(history') - 1] = lastCommand ]_vars

C4_Witness ==
    /\ call.op = "setEntryProperty"
    /\ call.result = NoError
    /\ Len(history) >= 2
    /\ history[Len(history) - 1] = <<"sep", "e1", "k", "x">>
    /\ PadTest(Last(history))

\* C5: the non-padding lines of history are the non-padding commands that
\* executed successfully, in the order execute received them, and execute
\* never changes or removes a line that is already in history.
C5_HistoryKeepsCommandOrder ==
    [][ call'.op \in ExecuteOps =>
            /\ IsPrefix(history, history')
            /\ NonPadding(history') =
                   NonPadding(history) \o NonPadding(SubSeq(call'.cmds, 1, call'.done)) ]_vars

C5_Witness ==
    /\ call.op = "executeBatch"
    /\ call.result = NoError
    /\ call.cmds = <<<<"cmm", "x">>, <<"cen", "g1", "e1">>>>
    /\ Len(NonPadding(history)) >= 3

\* the events of the execute() call that starts at trace[i]
CallSegment(i) ==
    LET later == {j \in (i + 1)..Len(trace) : trace[j] = "call"}
        end == IF later = {} THEN Len(trace)
               ELSE (CHOOSE j \in later : \A k \in later : j <= k) - 1
    IN  SubSeq(trace, i, end)

CallStarts == {i \in 1..Len(trace) : trace[i] = "call"}

\* C6: commandsExecuted is emitted once per execute() call, after every
\* command of the batch has been applied and the padding line appended; a
\* call that throws emits none.
C6_CommandsExecutedOncePerCall ==
    call.op \in ExecuteOps =>
        /\ CallStarts # {}
        /\ \A i \in CallStarts :
              LET segment == CallSegment(i)
                  emitted == Occurrences(segment, "commandsExecuted")
                  threw == call.result # NoError /\ i + Len(segment) - 1 = Len(trace)
              IN  /\ threw => emitted = 0
                  /\ ~threw => /\ emitted = 1
                               /\ Last(segment) = "commandsExecuted"
        /\ (call.op \in SingleCallOps /\ call.result = NoError) =>
              LET padNeeded == call.cmds = <<>> \/ ~PadTest(Last(call.cmds))
              IN  /\ Len(trace) = Len(call.cmds) + (IF padNeeded THEN 1 ELSE 0) + 2
                  /\ \A j \in 2..(Len(trace) - 1) : trace[j] \in {"push", "skip"}
                  /\ PadTest(Last(history))

C6_Witness ==
    /\ call.op = "executeBatch"
    /\ call.result = NoError
    /\ Len(call.cmds) = 2
    /\ trace = <<"call", "push", "push", "push", "commandsExecuted">>

\* C7: while readOnly is true no operation of the engine changes the history
\* or the vault tree.
C7_ReadOnlyNoBypass ==
    [][ readOnly => UNCHANGED <<history, source>> ]_vars

\* C8: once initialise() has run on a fresh engine, the first non-padding line
\* of history is a fmt command and the second an `aid <uuid>' command, for as
\* long as only execute() and the mutators act on the engine.
C8_FmtThenAidLeadHistory ==
    initialised =>
        LET lines == NonPadding(history)
        IN  /\ Len(lines) >= 2
            /\ Len(lines[1]) = 2 /\ lines[1][1] = "fmt"
            /\ Len(lines[2]) = 2 /\ lines[2][1] = "aid" /\ lines[2][2] \in UUIDs

C8_Witness ==
    /\ initialised
    /\ call.op = "createGroup"
    /\ call.result = NoError
    /\ Len(NonPadding(history)) >= 3

StructuralOps == {"cgr", "tgr", "mgr", "dgr", "sga", "dga", "cen", "men", "den",
                  "sep", "sem", "dep", "dem", "sea", "dea"}

LinesWith(opcode) == {i \in 1..Len(history) : OpcodeOf(history[i]) = opcode}

\* C9: every non-empty history contains exactly one aid command and exactly
\* one fmt command, and the fmt command precedes every structural command.
C9_ExactlyOneFmtAndAid ==
    history # <<>> =>
        /\ Cardinality(LinesWith("fmt")) = 1
        /\ Cardinality(LinesWith("aid")) = 1
        /\ \A i \in 1..Len(history) :
              OpcodeOf(history[i]) \in StructuralOps =>
                  \E j \in LinesWith("fmt") : j < i

\* the history was serialised and parsed right after initialise() on a
\* fresh engine
RoundTripOfEmptyVault == decoded.after = "initialise" /\ decoded.fresh

\* C10, as stated: the round trip of an empty vault yields a history of
\* exactly 2 lines, none a padding line, starting `fmt ' and `aid '.
C10_RoundTripEmptyHasTwoLines ==
    RoundTripOfEmptyVault =>
        /\ decoded.status = "ok"
        /\ Len(decoded.lines) = 2
        /\ \A i \in 1..Len(decoded.lines) : ~IsPaddingLine(decoded.lines[i])
        /\ decoded.lines[1][1] = "fmt"
        /\ decoded.lines[2][1] = "aid"

\* C10, amended: the round trip of an empty vault yields the 4 lines of the
\* history, fmt, padding, aid, padding: exactly 2 non-padding lines, the
\* first starting `fmt ' and the second `aid '.
C10_RoundTripEmptyHasFourLines ==
    RoundTripOfEmptyVault =>
        /\ decoded.status = "ok"
        /\ decoded.lines = history
        /\ Len(decoded.lines) = 4
        /\ decoded.lines[1][1] = "fmt" /\ Len(decoded.lines[1]) = 2
        /\ PadTest(decoded.lines[2])
        /\ decoded.lines[3][1] = "aid" /\ Len(decoded.lines[3]) = 2
        /\ PadTest(decoded.lines[4])
        /\ Len(NonPadding(decoded.lines)) = 2

C10_Witness ==
    /\ RoundTripOfEmptyVault
    /\ decoded.status = "ok"
    /\ Len(decoded.lines) = 4
    /\ call.op = "roundTrip"

-----------------------------------------------------------------------------
(* Claims on the codec functions.                                          *)

\* a history that was encoded and parsed back under the same credentials
EncodedAndParsed == codec.op = "encodeThenParse" /\ Len(codec.H) >= 1

\* the history whose only line is the empty line: its text is ""
OneEmptyLine == <<<<>>>>

\* C11 as stated: for every history of one or more lines and every
\* credentials, parseEncrypted(encodeRaw(H, c), c) is H line for line
C11_RoundTripEveryHistory ==
    EncodedAndParsed => codec.out.status = "ok" /\ codec.out.lines = codec.H

\* C11, amended: for every history of one or more lines other than the
\* single empty line, and every credentials, parseEncrypted(encodeRaw(H, c), c)
\* is H line for line; the single empty line is rejected as a failed
\* decryption
C11_RoundTripNonEmptyText ==
    EncodedAndParsed =>
        IF codec.H = OneEmptyLine
        THEN codec.out.status = "DecryptionFailed"
        ELSE codec.out.status = "ok" /\ codec.out.lines = codec.H

C11_Witness ==
    /\ EncodedAndParsed
    /\ Len(codec.H) = MaxLines
    /\ codec.impl = "node"
    /\ codec.password = "pw2"
    /\ \E i \in 1..Len(codec.H) : codec.H[i] = <<>>
    /\ \E i \in 1..Len(codec.H) : SHARE_COMMAND_EXP(codec.H[i])
    /\ codec.out.lines = codec.H

\* content handed to parseEncrypted, whoever produced it
ContentParsed == codec.op \in {"parseEncrypted", "encodeThenParse"}

\* C12: parseEncrypted rejects content without a valid signature with an
\* error and calls neither decrypt nor decompress on it; decrypt is only
\* ever handed the signature-stripped body, and decompress only a
\* non-empty result of that decryption
C12_SignatureVerifiedFirst ==
    ContentParsed =>
        LET calls == codec.out.calls
        IN  /\ ~hasValidSignature(codec.content) =>
                  codec.out.status = "NoValidSignature" /\ calls = <<>>
            /\ \A i \in 1..Len(calls) :
                  /\ calls[i].fn = "decrypt" =>
                        /\ hasValidSignature(codec.content)
                        /\ calls[i].arg = stripSignature(codec.content)
                  /\ calls[i].fn = "decompress" =>
                        /\ NonEmpty(calls[i].arg)
                        /\ i > 1
                        /\ calls[i - 1].fn = "decrypt"
                        /\ decryptData(codec.impl, calls[i - 1].arg, codec.password)
                              = [ok |-> TRUE, blob |-> calls[i].arg]

C12_Witness ==
    /\ codec.op = "parseEncrypted"
    /\ codec.impl = "node"
    /\ ~hasValidSignature(codec.content)
    /\ TopIs(codec.content, "iocane")
    /\ codec.out.status = "NoValidSignature"

\* C13: for every plaintext p and passwords k # k2, decrypt(encrypt(p, k), k2)
\* fails with an error (and so never returns p), in each crypto resource
\* module
C13_DecryptionBoundToPassword ==
    (codec.op = "decryptEncrypted" /\ codec.password # codec.other) => ~codec.out.ok

ShareIDs == {ShareIDOf(prefix) : prefix \in SharePrefixes}

\* the lines of H that belong to share `id', and those that belong to none
ShareLinesOf(H, id) ==
    SelectSeq(H, LAMBDA line : SHARE_COMMAND_EXP(line) /\ ShareIDOf(line[1]) = id)
BaseLinesOf(H) == SelectSeq(H, LAMBDA line : ~SHARE_COMMAND_EXP(line))

\* each line without its first word
WithoutPrefix(lines) == [i \in 1..Len(lines) |-> Tail(lines[i])]

BucketOf(output, key) == IF key \in DOMAIN output THEN output[key] ELSE <<>>

RECURSIVE SumOfLengths(_, _)
SumOfLengths(output, keys) ==
    IF keys = {} THEN 0
    ELSE LET key == CHOOSE k \in keys : TRUE
         IN  Len(output[key]) + SumOfLengths(output, keys \ {key})

\* C14: extractSharesFromHistory puts every line in exactly one bucket: a
\* line that starts with a share prefix goes, without the prefix, to the
\* bucket of that share, every other line goes unchanged to `base'; the
\* order of the lines within a bucket is their order in the input, and the
\* buckets together hold as many lines as the input
C14_EveryLineInOneBucket ==
    codec.op = "extractShares" =>
        LET output == codec.out
        IN  /\ "base" \in DOMAIN output
            /\ DOMAIN output \subseteq {"base"} \cup ShareIDs
            /\ output["base"] = BaseLinesOf(codec.H)
            /\ \A id \in ShareIDs :
                  /\ BucketOf(output, id) = WithoutPrefix(ShareLinesOf(codec.H, id))
                  /\ id \in DOMAIN output <=> ShareLinesOf(codec.H, id) # <<>>
            /\ SumOfLengths(output, DOMAIN output) = Len(codec.H)

C14_Witness ==
    /\ codec.op = "extractShares"
    /\ Len(codec.H) = MaxLines
    /\ DOMAIN codec.out = {"base", "u1", "u2"}

\* "$" + shareID, the word that a following space makes the prefix `$<shareID> '
PrefixOf(id) == IF id = "u1" THEN "$u1" ELSE "$u2"

\* each line of a share's bucket behind `$<shareID> '
Reprefixed(id, lines) == [i \in 1..Len(lines) |-> <<PrefixOf(id)>> \o lines[i]]

\* base and the re-prefixed buckets, one after the other
Recomposed(output) ==
    output["base"] \o Reprefixed("u1", BucketOf(output, "u1"))
                   \o Reprefixed("u2", BucketOf(output, "u2"))

LinesIn(lines) == {lines[i] : i \in 1..Len(lines)}

\* C15: re-prefixing the lines of every share bucket with `$<shareID> ' and
\* taking them together with `base' gives back the original lines, each as
\* often as in the input, and in the input's order among the base lines and
\* among the lines of each share
C15_RecomposedIsOriginal ==
    codec.op = "extractShares" =>
        LET output == codec.out
        IN  /\ \A line \in LinesIn(codec.H) \cup LinesIn(Recomposed(output)) :
                  Occurrences(Recomposed(output), line) = Occurrences(codec.H, line)
            /\ output["base"] = BaseLinesOf(codec.H)
            /\ \A id \in ShareIDs :
                  Reprefixed(id, BucketOf(output, id)) = ShareLinesOf(codec.H, id)

-----------------------------------------------------------------------------
(* Claims on the attachment manager.                                       *)

\* what a call has itself asked of the vault, the source and the datasource
Events(p) == {p.did[i] : i \in 1..Len(p.did)}

\* an event of the call comes before another one of it
Before(p, first, second) ==
    \E i, j \in 1..Len(p.did) : i < j /\ p.did[i] = first /\ p.did[j] = second

\* C16: when getAvailableStorage() answers a non-null value smaller than
\* the net size increase of the write, setAttachment fails with the
\* out-of-space error, and it neither calls putAttachment nor sets the
\* entry's BC_ATTACHMENT:<id> attribute
C16_QuotaRefusesWrite ==
    \A c \in Calls :
        LET p == procs[c]
        IN  (p.op = "setAttachment" /\ p.short) =>
                /\ p.pc = "done"
                /\ p.result = "OutOfSpace"
                /\ "datasource.putAttachment" \notin Events(p)
                /\ "entry.setAttribute" \notin Events(p)

\* a replacement refused although the entry has details: 3 bytes in place
\* of 1 where fewer than 2 are free
C16_Witness ==
    \E c \in Calls :
        /\ procs[c].op = "setAttachment"
        /\ procs[c].short
        /\ procs[c].existing.present
        /\ procs[c].result = "OutOfSpace"
        /\ details[procs[c].id] = procs[c].existing

\* C17: once the vault has an attachments key, no step of any attachment
\* call changes it, however concurrent setAttachment and getAttachment
\* calls on the vault source interleave
C17_AttachmentKeyImmutable ==
    [][vaultKey # NoKey => vaultKey' = vaultKey]_vars

\* C18: a setAttachment call that creates the key has set it on the vault
\* and has seen its save complete before it calls putAttachment; a call
\* whose save failed never calls putAttachment
C18_KeySavedBeforeBlobPut ==
    \A c \in Calls :
        LET p == procs[c]
        IN  (p.op = "setAttachment" /\ p.createdKey) =>
                /\ "datasource.putAttachment" \in Events(p) =>
                      /\ Before(p, "vault.setAttribute", "source.save")
                      /\ Before(p, "source.save", "saved")
                      /\ Before(p, "saved", "datasource.putAttachment")
                /\ "saveFailed" \in Events(p) =>
                      /\ "datasource.putAttachment" \notin Events(p)
                      /\ p.pc = "done"
                      /\ p.result = "SaveFailed"
                /\ p.pc \in {"storage", "putting"} => "saved" \in Events(p)

C18_Witness ==
    \E c \in Calls :
        /\ procs[c].op = "setAttachment"
        /\ procs[c].createdKey
        /\ procs[c].result = "ok"
        /\ lastPut[procs[c].id].key = procs[c].key

\* a getAttachment call for an attachment ID the entry had no details of
NoRecordCalls == {c \in Calls : procs[c].op = "getAttachment" /\ procs[c].noRecord}

\* C19 as stated: getAttachment on an entry without a details record for
\* the attachment ID fails with the not-found error, before the datasource
\* is asked for the data and before a key is created or the vault saved
C19_NoRecordIsNotFound ==
    \A c \in NoRecordCalls :
        /\ procs[c].did = <<>>
        /\ procs[c].pc \in {"gotDetails", "done"}
        /\ procs[c].pc = "done" => procs[c].result = "NotFound"

\* C19, amended: on a source that supports attachments it fails with the
\* not-found error, on one that does not with the not-supported error; in
\* both cases before the datasource is asked for the data and before a key
\* is created or the vault saved
C19_NoRecordFailsBeforeAnyCall ==
    \A c \in NoRecordCalls :
        /\ procs[c].did = <<>>
        /\ ~procs[c].createdKey
        /\ procs[c].pc \in {"gotDetails", "done"}
        /\ procs[c].pc = "done" =>
              procs[c].result = IF supports THEN "NotFound" ELSE "Unsupported"

\* not found although the vault has no key yet and a setAttachment of the
\* same attachment is under way
C19_Witness ==
    \E c \in NoRecordCalls, other \in Calls :
        /\ procs[c].result = "NotFound"
        /\ vaultKey = NoKey
        /\ procs[other].op = "setAttachment"
        /\ procs[other].pc = "gotDetails"

\* C20: no attachment data larger than MAX_DATA_SIZE (200 MiB) is handed to
\* the datasource to write, and a setAttachment whose data is larger fails
\* with the too-large error without calling putAttachment or recording
\* details
C20_NoBlobOverMaxDataSize ==
    /\ \A id \in AttachmentIDs :
          /\ lastPut[id].present => lastPut[id].size <= MAX_DATA_SIZE
          /\ details[id].present => details[id].sizeOriginal <= MAX_DATA_SIZE
    /\ \A c \in Calls :
          LET p == procs[c]
          IN  (/\ p.op = "setAttachment"
               /\ p.sizeOriginal > MAX_DATA_SIZE
               /\ p.pc = "done"
               /\ supports /\ p.named) =>
                  /\ p.result = "TooLarge"
                  /\ "datasource.putAttachment" \notin Events(p)

\* C23 (first half): once setDerivationRounds has been called, the override
\* of the module is the argument of the latest call when that is a non-zero
\* number, and CRYPTO_PBKDF2_ROUNDS when it is zero or null
C23_OverrideIsLatestArgument ==
    (crypto.op # "idle" /\ crypto.called) =>
        crypto.override = IF crypto.rounds.number /\ crypto.rounds.n # 0
                          THEN crypto.rounds.n
                          ELSE CRYPTO_PBKDF2_ROUNDS

\* C23: an encryptData derives its key with exactly the number of rounds the
\* override of its module holds: the latest argument of setDerivationRounds,
\* or the default
C23_EncryptsWithOverrideRounds ==
    crypto.op = "encryptData" =>
        /\ C23_OverrideIsLatestArgument
        /\ crypto.derived = DerivesWith(crypto.override)

\* a character of CRYPTO_RANDOM_STRING_CHARS, as its index
InAlphabet(index) == index \in 0..(randCharsLen - 1)

\* the number of characters of a string given as its indices
RECURSIVE TextLengthOf(_)
TextLengthOf(indices) ==
    IF indices = <<>> THEN 0
    ELSE TextLength(Head(indices)) + TextLengthOf(Tail(indices))

RandomStringReturned == applied.op = "applied" /\ applied.fn = "randomString"

\* randomString(length) returned exactly `length' characters of the alphabet
LengthOfAlphabet ==
    RandomStringReturned =>
        /\ TextLengthOf(applied.out) = applied.length
        /\ \A i \in DOMAIN applied.out : InAlphabet(applied.out[i])

C22_RandomStringNotFunctionOfLength ==
    (RandomStringReturned /\ applied.length > 0) =>
        \E other \in randomString(applied.impl, applied.length) :
            other # applied.out

\* the last Len(suffix) characters of str are suffix
IsSuffix(suffix, str) ==
    /\ Len(suffix) <= Len(str)
    /\ SubSeq(str, Len(str) - Len(suffix) + 1, Len(str)) = suffix

\* C24: domainsRelated(d1, d2) is true exactly when one of the two non-empty
\* hosts is a suffix of the other, the shorter occurring earlier in the
\* longer or not
C24_RelatedIffSuffix ==
    (applied.op = "applied" /\ applied.fn = "domainsRelated") =>
        (applied.out <=> \/ IsSuffix(applied.domain1, applied.domain2)
                         \/ IsSuffix(applied.domain2, applied.domain1))

\* C25: the comparator of searchByURL is consistent, compare(a, b) and
\* compare(b, a) having opposite signs, and the sorted results never rank a
\* result before one with a strictly higher domain hit count
C25_ConsistentOrderByDomainScore ==
    /\ (applied.op = "applied" /\ applied.fn = "compare") =>
          applied.ab = 0 - applied.ba
    /\ (applied.op = "applied" /\ applied.fn = "sort") =>
          \A i \in DOMAIN applied.out, j \in DOMAIN applied.out :
              i < j => applied.out[i].domainScore >= applied.out[j].domainScore

\* two calls of incrementScore, one after the other, with the same arguments
SameArgumentsTwice(i) ==
    /\ i + 1 \in DOMAIN search.log
    /\ search.log[i].args = search.log[i + 1].args

\* C26: incrementScore is idempotent: a second call with the same arguments
\* leaves the stored score that the first call left
C26_IncrementScoreIdempotent ==
    search.op # "idle" =>
        \A i \in DOMAIN search.log :
            SameArgumentsTwice(i) => search.log[i + 1].after = search.log[i].after

\* the store is written by the setValue of incrementScore and by no other
\* step of Search
OnlyIncrementScoreWrites ==
    (search.op # "idle" /\ search'.store # search.store) =>
        /\ search.inc.pc = "getValue"
        /\ search'.inc.pc = "setValue"
        /\ \A v \in DOMAIN search.store :
              v # search.inc.args.vaultID => search'.store[v] = search.store[v]

\* every call of incrementScore that has returned added one to the score it
\* found, or wrote nothing when its URL has no host
EachCallAddsOne ==
    search.op # "idle" =>
        \A i \in DOMAIN search.log :
            LET c == search.log[i]
            IN  /\ c.wrote <=> extractDomain(c.args.url) # <<>>
                /\ c.after = IF c.wrote THEN c.before + 1 ELSE c.before
                /\ (i > 1 /\ search.log[i - 1].args = c.args) =>
                      c.before = search.log[i - 1].after

\* C26, amended: incrementScore counts: each call, awaited before the next,
\* whose URL has a host adds one to the stored score of its vault, entry and
\* host, so a second call leaves one more than the first; a call whose URL
\* has no host writes nothing; and no other step of Search writes the store
C26_IncrementScoreCounts == []EachCallAddsOne /\ [][OnlyIncrementScoreWrites]_vars

\* two calls with the same URL returned, and the stored score went from 0 to 2
C26_Witness ==
    /\ search.op # "idle"
    /\ Len(search.log) = 2
    /\ search.log[1].args = search.log[2].args
    /\ search.log[1].before = 0
    /\ search.log[2].after = 2

\* the ids of a list of index items
IDsOf(items) == {items[i].id : i \in DOMAIN items}

\* prepare() has run to its end and no other prepare() has begun
Prepared == search.op # "idle" /\ search._fuse.built /\ search.prep.pc = "idle"

\* C27: after prepare() the index holds exactly the entries of the vaults
\* that were out of the trash when prepare() read them, and a search made
\* then returns no entry that was in the trash
C27_TrashedEntriesNotIndexed ==
    Prepared =>
        /\ IDsOf(search._entries) = SearchEntryIDs \ search.inTrashAtRead
        /\ IDsOf(search._fuse.items) = SearchEntryIDs \ search.inTrashAtRead
        /\ search.op \in {"searchByTerm", "searchByURL"} =>
              IDsOf(search._results) \cap search.inTrashAtRead = {}

\* a search by URL after prepare() returned the entry out of the trash and
\* not the one that was in it, whose URL is related as well
C27_Witness ==
    /\ Prepared
    /\ search.op = "searchByURL"
    /\ search.inTrashAtRead = {"e2"}
    /\ IDsOf(search._results) = {"e1"}

\* the destructive commands the merge is said to drop
SaidDestructive == {"dgr", "den", "dep", "dea", "dga", "daa"}

\* the lines of a history that are neither of those nor the legacy dem
OtherLines(h) ==
    SelectSeq(h, LAMBDA line : line[1] \notin SaidDestructive \cup {"dem"})

\* C28: prepareHistoryForMerge(H) holds no dgr, den, dep, dea, dga or daa
\* line, and its creates, sets, moves and comments are those of H, all of
\* them, in their order
C28_DestructiveStrippedOthersKept ==
    (applied.op = "applied" /\ applied.fn = "prepareHistoryForMerge") =>
        /\ \A i \in DOMAIN applied.out : applied.out[i][1] \notin SaidDestructive
        /\ OtherLines(applied.out) = OtherLines(applied.history)

\* a delete between a create and a set: the two are kept in their order
C28_Witness ==
    /\ applied.op = "applied"
    /\ applied.fn = "prepareHistoryForMerge"
    /\ applied.history = <<Inigo("cgr", <<"0", "g1">>), Inigo("dgr", <<"g1">>),
                           Inigo("tgr", <<"g1", "x">>)>>
    /\ applied.out = <<Inigo("cgr", <<"0", "g1">>), Inigo("tgr", <<"g1", "x">>)>>

\* the final tree of a vault: its format, its ID, its attributes, and its
\* groups and entries with what each holds and what it lies under
Tree(src) ==
    [format |-> src.format, id |-> src.id, attributes |-> src.attributes,
     groups |-> {src.groups[i] : i \in DOMAIN src.groups},
     entries |-> {src.entries[i] : i \in DOMAIN src.entries}]

OptimiseReturned == applied.op = "applied" /\ applied.fn = "optimise"

FacadeLike ==
    Mapping([f \in FacadeFields |->
                CASE f = "type" -> Text("vault")
                  [] f = "id" -> Text("1")
                  [] OTHER -> EmptyArray])
WithoutId ==
    Mapping([f \in FacadeFields \ {"id"} |->
                IF f = "type" THEN Text("vault") ELSE EmptyArray])
EmptyObject == Mapping(<<>>)

IsVaultFacadeReturned == applied.op = "applied" /\ applied.fn = "isVaultFacade"

\* C30: isVaultFacade(x) is true exactly when x is a mapping, not null,
\* whose type is "vault", whose id is a string and which has groups and
\* entries; it is false for null, undefined, {} and a mapping without id
C30_FacadeIffVaultShaped ==
    IsVaultFacadeReturned =>
        LET x == applied.x
        IN  /\ applied.out <=>
                  /\ x.kind = "object"
                  /\ "type" \in DOMAIN x.fields /\ x.fields["type"] = Text("vault")
                  /\ "id" \in DOMAIN x.fields /\ x.fields["id"].t = "string"
                  /\ "groups" \in DOMAIN x.fields
                  /\ "entries" \in DOMAIN x.fields
            /\ x = FacadeLike => applied.out
            /\ x \in {WithoutId, EmptyObject, Undefined, Null} => ~applied.out

\* the mapping of the test that lacks the id alone, found to be no facade
C30_Witness ==
    /\ IsVaultFacadeReturned
    /\ applied.x = WithoutId
    /\ ~applied.out

-----------------------------------------------------------------------------
(* The quota check of an overwrite.                                        *)

\* a setAttachment call that has had the answer of getAvailableStorage()
QuotaChecked(p) ==
    /\ p.op = "setAttachment"
    /\ \/ p.pc = "putting"
       \/ p.pc = "done" /\ p.result \in {"ok", "OutOfSpace"}

\* the encrypted size by which the new data exceeds the details the call
\* read, or 0
NetIncrease(p) ==
    IF p.sizeEncrypted > p.existing.sizeEncrypted
    THEN p.sizeEncrypted - p.existing.sizeEncrypted ELSE 0

\* C31: the quota check of setAttachment charges an overwrite the net
\* increase max(0, newEncryptedSize - existingDetails.sizeEncrypted) and a
\* new attachment its full encrypted size: an update that is not larger
\* than the stored one never fails for lack of space, even with 0 bytes
\* available
C31_QuotaChargesNetIncrease ==
    \A c \in Calls :
        LET p == procs[c]
            charged == IF p.existing.present THEN NetIncrease(p)
                       ELSE p.sizeEncrypted
        IN  QuotaChecked(p) =>
                /\ (p.result = "OutOfSpace") =
                       (p.spaceAvailable.limited /\ charged > p.spaceAvailable.bytes)
                /\ (p.existing.present
                        /\ p.sizeEncrypted <= p.existing.sizeEncrypted)
                       => p.result # "OutOfSpace"

\* an attachment overwritten by data that is not larger, with 0 bytes
\* available, while a new attachment of 1 byte was refused on 0 bytes
C31_Witness ==
    \E c, d \in Calls :
        /\ QuotaChecked(procs[c])
        /\ procs[c].existing.present
        /\ procs[c].sizeEncrypted <= procs[c].existing.sizeEncrypted
        /\ procs[c].spaceAvailable = [limited |-> TRUE, bytes |-> 0]
        /\ procs[c].result = "ok"
        /\ details[procs[c].id].sizeEncrypted = procs[c].sizeEncrypted
        /\ QuotaChecked(procs[d])
        /\ ~procs[d].existing.present
        /\ procs[d].spaceAvailable = [limited |-> TRUE, bytes |-> 0]
        /\ procs[d].result = "OutOfSpace"

-----------------------------------------------------------------------------
(* Attachment bookkeeping: setAttachment and removeAttachment on one       *)
(* entry, with a datasource whose calls can be rejected and a vault that   *)
(* can be read-only.  A call runs from one `await' to the next in one      *)
(* step.                                                                   *)

BookIDs == {"a1", "a2"}

NoBookCall == [op |-> "idle", pc |-> "idle", id |-> "a1", result |-> "pending"]

\* entry.setAttribute(`BC_ATTACHMENT:<id>', ...): the vault format's execute
\* throws on a read-only vault, else the attribute is on the entry
setAttribute(b, id) ==
    IF b.readOnly THEN [attributes |-> b.attributes, threw |-> TRUE]
    ELSE [attributes |-> b.attributes \cup {id}, threw |-> FALSE]

\* entry.deleteAttribute(`BC_ATTACHMENT:<id>'): the same, the attribute
\* taken off the entry
deleteAttribute(b, id) ==
    IF b.readOnly THEN [attributes |-> b.attributes, threw |-> TRUE]
    ELSE [attributes |-> b.attributes \ {id}, threw |-> FALSE]

\* the call `c' of the record moved on
BookCall(b, c, pc, result) ==
    [b.calls EXCEPT ![c] = [@ EXCEPT !.pc = pc, !.result = result]]

InitBookkeeping ==
    /\ EngineIdle
    /\ IdleOutsideBookkeeping
    /\ bookkeeping = [op |-> "open", readOnly |-> FALSE, attributes |-> {},
                      blobs |-> {}, calls |-> [c \in Calls |-> NoBookCall]]

\* vault.format.readOnly is set or cleared
VaultReadOnly ==
    /\ bookkeeping.op = "open"
    /\ bookkeeping' = [bookkeeping EXCEPT !.readOnly = ~@]
    /\ UNCHANGED outsideBookkeeping

\* setAttachment(entry, attachmentID, ...), up to its first await
SetAttachmentCalled ==
    \E c \in Calls, id \in BookIDs :
        /\ bookkeeping.op = "open"
        /\ bookkeeping.calls[c].op = "idle"
        /\ bookkeeping' = [bookkeeping EXCEPT !.calls[c] =
               [op |-> "setAttachment", pc |-> "checking", id |-> id,
                result |-> "pending"]]
        /\ UNCHANGED outsideBookkeeping

\* the details, the credentials and the available storage are there: the
\* call throws for want of space, or datasource.putAttachment is awaited
PutAttachmentCalled ==
    \E c \in Calls, tooBig \in BOOLEAN :
        /\ bookkeeping.op = "open"
        /\ bookkeeping.calls[c].pc = "checking"
        /\ bookkeeping' = [bookkeeping EXCEPT !.calls =
               IF tooBig THEN BookCall(bookkeeping, c, "done", "OutOfSpace")
               ELSE BookCall(bookkeeping, c, "putting", "pending")]
        /\ UNCHANGED outsideBookkeeping

\* datasource.putAttachment settles: rejected, the call is rejected with
\* nothing stored; resolved, the blob is in the datasource and the details
\* are set on the entry
PutAttachmentSettled ==
    \E c \in Calls, stored \in BOOLEAN :
        LET b == bookkeeping
            id == b.calls[c].id
            set == setAttribute(b, id)
        IN  /\ b.op = "open"
            /\ b.calls[c].pc = "putting"
            /\ bookkeeping' =
                 IF ~stored
                 THEN [b EXCEPT !.calls = BookCall(b, c, "done", "DatasourceError")]
                 ELSE [b EXCEPT !.blobs = @ \cup {id},
                                !.attributes = set.attributes,
                                !.calls = BookCall(b, c, "done",
                                    IF set.threw THEN "ReadOnly" ELSE "ok")]
            /\ UNCHANGED outsideBookkeeping

\* removeAttachment(entry, attachmentID), up to
\* `await this._source._datasource.removeAttachment(...)'
RemoveAttachment ==
    \E c \in Calls, id \in BookIDs :
        /\ bookkeeping.op = "open"
        /\ bookkeeping.calls[c].op = "idle"
        /\ bookkeeping' = [bookkeeping EXCEPT !.calls[c] =
               [op |-> "removeAttachment", pc |-> "removing", id |-> id,
                result |-> "pending"]]
        /\ UNCHANGED outsideBookkeeping

\* datasource.removeAttachment settles: rejected, the call is rejected with
\* nothing removed; resolved, the blob is gone and the attribute is deleted
\* from the entry
RemoveAttachmentSettled ==
    \E c \in Calls, removed \in BOOLEAN :
        LET b == bookkeeping
            id == b.calls[c].id
            deleted == deleteAttribute(b, id)
        IN  /\ b.op = "open"
            /\ b.calls[c].pc = "removing"
            /\ bookkeeping' =
                 IF ~removed
                 THEN [b EXCEPT !.calls = BookCall(b, c, "done", "DatasourceError")]
                 ELSE [b EXCEPT !.blobs = @ \ {id},
                                !.attributes = deleted.attributes,
                                !.calls = BookCall(b, c, "done",
                                    IF deleted.threw THEN "ReadOnly" ELSE "ok")]
            /\ UNCHANGED outsideBookkeeping

\* the caller has the outcome of a call
CallReturned ==
    \E c \in Calls :
        /\ bookkeeping.op = "open"
        /\ bookkeeping.calls[c].pc = "done"
        /\ bookkeeping' = [bookkeeping EXCEPT !.calls[c] = NoBookCall]
        /\ UNCHANGED outsideBookkeeping

NextBookkeeping ==
    \/ VaultReadOnly
    \/ SetAttachmentCalled
    \/ PutAttachmentCalled
    \/ PutAttachmentSettled
    \/ RemoveAttachment
    \/ RemoveAttachmentSettled
    \/ CallReturned

SpecBookkeeping == InitBookkeeping /\ [][NextBookkeeping]_vars

\* no attachment call between its first step and its outcome
NoOperationInProgress ==
    \A c \in Calls : bookkeeping.calls[c].pc \in {"idle", "done"}

\* C32: whenever no attachment operation is in progress, every
\* BC_ATTACHMENT:<id> attribute on the entry refers to a blob that exists in
\* the datasource, also after a setAttachment or removeAttachment that
\* failed partway
C32_AttributesHaveBlobs ==
    (bookkeeping.op = "open" /\ NoOperationInProgress)
        => bookkeeping.attributes \subseteq bookkeeping.blobs

-----------------------------------------------------------------------------
(* The MyButtercup client.  An API call runs from one HTTP request to the  *)
(* settling of the next in one step: the handlers chained on a settled     *)
(* request run without another task in between.                            *)

ClientCalls == {1, 2}
APIs == {"fetchUserVault", "writeUserArchive", "retrieveDigest", "fetchShares"}
\* access tokens: the one the client is constructed with, and the ones the
\* server hands out
InitialAccessToken == "t0"
ServerAccessTokens == {"t1", "t2"}
InitialRefreshToken == "r0"

\* vault contents handed to writeUserArchive, by their leading signature
NoFormat == "none"
VaultContents == {"buttercup/a", "buttercup/b", "plain", ""}
NoContents == "-"

\* detectFormat(contents): the format whose signature the contents start
\* with, or none
detectFormat(contents) ==
    IF contents \in {"buttercup/a", "buttercup/b"} THEN contents ELSE NoFormat

\* Format.isEncrypted(contents)
isEncrypted(Format, contents) == contents = Format

\* a check of the contents that lets everything through
notInEncryptedForm_never(contents) == FALSE

\* !Format || !Format.isEncrypted(contents)
notInEncryptedForm(contents) ==
    LET Format == detectFormat(contents)
    IN  Format = NoFormat \/ ~isEncrypted(Format, contents)

\* the errors a request is rejected with, or a response handler throws: with
\* or without response headers, and with the x-mb-oauth header if any
NoHeader == "absent"
RequestErrors ==
    {[responseHeaders |-> FALSE, oauth |-> NoHeader]}
        \cup {[responseHeaders |-> TRUE, oauth |-> o] :
                 o \in {NoHeader, "", "token_expired", "invalid_token"}}
NoRequestError == [responseHeaders |-> FALSE, oauth |-> "-"]

\* a failure handler that refreshes on every x-mb-oauth value
handleRequestFailure_anyOAuth(err) ==
    IF err.responseHeaders /\ err.oauth \notin {NoHeader, ""}
    THEN "_performTokenRefresh" ELSE "throw"

\* _handleRequestFailure(err): the token refresh, or a throw
handleRequestFailure(err) ==
    IF err.responseHeaders /\ err.oauth \notin {NoHeader, ""}
    THEN IF err.oauth = "token_expired" THEN "_performTokenRefresh" ELSE "throw"
    ELSE "throw"

\* what the server answers to a main request: a valid response, a response
\* the handler throws on, or a failure
RequestOutcomes ==
    {[ok |-> TRUE, err |-> NoRequestError]}
        \cup {[ok |-> FALSE, err |-> e] : e \in RequestErrors}

\* what the server answers to the token request
TokenTypes == {"Bearer", "bearer", "mac"}
TokenResponses ==
    {[resp |-> TRUE, tokenType |-> t, accessToken |-> a] :
        t \in TokenTypes, a \in ServerAccessTokens \cup {""}}
        \cup {[resp |-> FALSE, tokenType |-> "", accessToken |-> ""]}

\* the token response is one _performTokenRefresh takes
tokenAccepted(r) ==
    r.resp /\ r.tokenType \in {"Bearer", "bearer"} /\ r.accessToken # ""

NoClientCall ==
    [pc |-> "idle", api |-> "fetchUserVault", contents |-> NoContents,
     bearer |-> "", err |-> NoRequestError, refreshed |-> FALSE,
     sent |-> FALSE, result |-> "pending"]

\* an API method called with the client's access token: writeUserArchive
\* throws on contents not in encrypted form, else the request is issued
issue(p, accessToken) ==
    IF p.api = "writeUserArchive" /\ notInEncryptedForm(p.contents)
    THEN [p EXCEPT !.pc = "done", !.result = "NotEncrypted"]
    ELSE [p EXCEPT !.pc = "requesting", !.bearer = accessToken, !.sent = TRUE]

\* what a step does when it calls an API method
issued(p) == IF p.pc = "requesting" THEN <<"request">> ELSE <<>>

InitClient ==
    /\ EngineIdle
    /\ IdleOutsideClient
    /\ client = [op |-> "open", accessToken |-> InitialAccessToken,
                 refreshToken |-> InitialRefreshToken, did |-> <<>>,
                 calls |-> [c \in ClientCalls |-> NoClientCall]]

\* fetchUserVault(), writeUserArchive(contents, ...), retrieveDigest(),
\* fetchShares(ids) called
CallAPI ==
    \E c \in ClientCalls, api \in APIs, contents \in VaultContents :
        LET p == issue([NoClientCall EXCEPT !.api = api,
                           !.contents = IF api = "writeUserArchive"
                                        THEN contents ELSE NoContents],
                       client.accessToken)
        IN  /\ client.op = "open"
            /\ client.calls[c].pc = "idle"
            /\ api # "writeUserArchive" => contents = ""
            /\ client' = [client EXCEPT !.calls[c] = p, !.did = issued(p)]
            /\ UNCHANGED outsideClient

\* the request of an API call settles: the call resolves, or
\* _handleRequestFailure throws and the call is rejected, or it starts the
\* token refresh
RequestSettled ==
    \E c \in ClientCalls, outcome \in RequestOutcomes :
        LET p == client.calls[c]
            q == [p EXCEPT !.err = outcome.err]
        IN  /\ client.op = "open"
            /\ p.pc = "requesting"
            /\ client' =
                 IF outcome.ok
                 THEN [client EXCEPT !.calls[c] =
                          [q EXCEPT !.pc = "done", !.result = "ok"],
                          !.did = <<>>]
                 ELSE IF handleRequestFailure(outcome.err) = "_performTokenRefresh"
                 THEN [client EXCEPT !.calls[c] = [q EXCEPT !.pc = "refreshing"],
                                     !.did = <<"tokenRequest">>]
                 ELSE [client EXCEPT !.calls[c] =
                          [q EXCEPT !.pc = "done", !.result = "Failed"],
                          !.did = <<>>]
            /\ UNCHANGED outsideClient

\* the token request settles: the call is rejected, or the access token is
\* set, tokensUpdated is emitted and the API method is called again
TokenRequestSettled ==
    \E c \in ClientCalls, r \in TokenResponses :
        LET p == client.calls[c]
            again == issue([p EXCEPT !.refreshed = TRUE], r.accessToken)
        IN  /\ client.op = "open"
            /\ p.pc = "refreshing"
            /\ client' =
                 IF tokenAccepted(r)
                 THEN [client EXCEPT !.accessToken = r.accessToken,
                          !.calls[c] = again,
                          !.did = <<"setAccessToken", "tokensUpdated">>
                                      \o issued(again)]
                 ELSE [client EXCEPT !.calls[c] =
                          [p EXCEPT !.pc = "done", !.result = "RefreshFailed"],
                          !.did = <<>>]
            /\ UNCHANGED outsideClient

\* the caller has the outcome of an API call
APISettled ==
    \E c \in ClientCalls :
        /\ client.op = "open"
        /\ client.calls[c].pc = "done"
        /\ client' = [client EXCEPT !.calls[c] = NoClientCall, !.did = <<>>]
        /\ UNCHANGED outsideClient

NextClient ==
    \/ CallAPI
    \/ RequestSettled
    \/ TokenRequestSettled
    \/ APISettled

SpecClient == InitClient /\ [][NextClient]_vars

\* the same client when every HTTP request made eventually completes
SpecClientLive ==
    /\ InitClient
    /\ [][NextClient]_vars
    /\ WF_vars(RequestSettled)
    /\ WF_vars(TokenRequestSettled)

\* the error is a failure that carries x-mb-oauth = token_expired
TokenExpired(err) == err.responseHeaders /\ err.oauth = "token_expired"

\* C33: a request that fails with x-mb-oauth = token_expired makes the
\* client perform one token refresh; the access token is set to the one
\* returned and tokensUpdated is emitted before the same request is issued
\* again, with the new access token; the refresh token never changes; a
\* failure without that header or with another value of it is rejected
\* without refresh and without retry
C33_RefreshThenRetryOnTokenExpired ==
    [][ /\ client'.refreshToken = client.refreshToken
        /\ client'.accessToken # client.accessToken
               => /\ client'.accessToken \in ServerAccessTokens
                  /\ client'.did = <<"setAccessToken", "tokensUpdated", "request">>
        /\ \A c \in ClientCalls :
             LET p == client.calls[c]
                 q == client'.calls[c]
             IN  /\ (p.pc = "requesting" /\ q # p) =>
                       IF TokenExpired(q.err)
                       THEN /\ q.pc = "refreshing"
                            /\ client'.did = <<"tokenRequest">>
                            /\ client'.accessToken = client.accessToken
                       ELSE /\ q.pc = "done"
                            /\ q.refreshed = p.refreshed
                            /\ q.err # NoRequestError => q.result = "Failed"
                            /\ client'.did = <<>>
                            /\ client'.accessToken = client.accessToken
                 /\ (p.pc = "refreshing" /\ q.pc = "requesting") =>
                       /\ client'.did = <<"setAccessToken", "tokensUpdated", "request">>
                       /\ q.bearer = client'.accessToken
                       /\ q.api = p.api
                       /\ q.contents = p.contents
                 /\ q.pc = "refreshing" => TokenExpired(q.err)
      ]_vars

\* a call answered after a refresh and a retry under a new access token,
\* and a call rejected for x-mb-oauth = invalid_token with no refresh
C33_Witness ==
    /\ client.op = "open"
    /\ \E c, d \in ClientCalls :
        /\ client.calls[c].refreshed
        /\ client.calls[c].result = "ok"
        /\ client.calls[c].bearer = client.accessToken
        /\ client.accessToken \in ServerAccessTokens
        /\ client.calls[d].err = [responseHeaders |-> TRUE, oauth |-> "invalid_token"]
        /\ client.calls[d].result = "Failed"
        /\ ~client.calls[d].refreshed

\* C34: provided every HTTP request eventually completes, every API call
\* eventually resolves or rejects: the token refreshes and retries of one
\* call are bounded, also when the server answers token_expired to every
\* request and accepts every refresh
C34_EveryCallSettles ==
    \A c \in ClientCalls :
        (client.calls[c].pc \in {"requesting", "refreshing"})
            ~> (client.calls[c].pc = "done")

\* contents that start with the signature of no vault format
Unrecognised(contents) == contents \notin {"buttercup/a", "buttercup/b"}

\* C35: writeUserArchive never sends vault contents that are not in
\* recognised encrypted form: the call fails and no HTTP request is issued,
\* on the first attempt and on every retry after a token refresh
C35_OnlyEncryptedContentsSent ==
    client.op = "open" =>
        \A c \in ClientCalls :
            LET p == client.calls[c]
            IN  (p.pc # "idle" /\ p.api = "writeUserArchive"
                     /\ Unrecognised(p.contents))
                    => /\ p.pc = "done"
                       /\ p.result = "NotEncrypted"
                       /\ ~p.sent
                       /\ ~p.refreshed

\* a write of plain contents rejected with no request, beside a write of
\* encrypted contents sent again after a token refresh
C35_Witness ==
    /\ client.op = "open"
    /\ \E c, d \in ClientCalls :
        /\ client.calls[c].api = "writeUserArchive"
        /\ client.calls[c].contents = "plain"
        /\ client.calls[c].result = "NotEncrypted"
        /\ ~client.calls[c].sent
        /\ client.calls[d].api = "writeUserArchive"
        /\ client.calls[d].refreshed
        /\ client.calls[d].pc = "requesting"
        /\ client.did = <<"setAccessToken", "tokensUpdated", "request">>

-----------------------------------------------------------------------------
(* The Google Drive datasource.  A load or save call runs from one         *)
(* settled promise to the next in one step.                                *)

DriveCalls == {1, 2}

\* how an attempt ends: resolved, rejected with an error whose info has
\* authFailure, or rejected with another error
AttemptOutcomes == {"ok", "authFailure", "failure"}

NoDriveCall ==
    [pc |-> "idle", op |-> "load", hasAuthed |-> FALSE, first |-> "pending",
     second |-> "pending", auths |-> 0, retries |-> 0, result |-> "pending"]

\* a catch handler that re-authenticates on every failed authentication
onFailure_everyTime(authFailure, hasAuthed) ==
    IF ~authFailure THEN "Failed" ELSE "executeAuthHandlers"

\* the catch handler of load and save: what it throws, or the
\* re-authentication
onFailure(authFailure, hasAuthed) ==
    IF ~authFailure THEN "Failed"
    ELSE IF hasAuthed THEN "ReauthFailed"
    ELSE "executeAuthHandlers"

\* load(credentials, hasAuthed) and save(history, credentials, hasAuthed),
\* up to the first promise: a load of a datasource with content is the load
\* of the text datasource; else the file is fetched, or encrypted and put
attempt(p, hasContent) ==
    IF p.op = "load" /\ hasContent THEN [p EXCEPT !.pc = "textLoad"]
    ELSE [p EXCEPT !.pc = "attempt"]

InitDrive ==
    /\ EngineIdle
    /\ IdleOutsideDrive
    /\ \E hasContent \in BOOLEAN :
        drive = [op |-> "open", hasContent |-> hasContent,
                 calls |-> [c \in DriveCalls |-> NoDriveCall]]

\* load(credentials) or save(history, credentials) called
LoadOrSave ==
    \E c \in DriveCalls, op \in {"load", "save"} :
        /\ drive.op = "open"
        /\ drive.calls[c].pc = "idle"
        /\ drive' = [drive EXCEPT !.calls[c] =
               attempt([NoDriveCall EXCEPT !.op = op], drive.hasContent)]
        /\ UNCHANGED outsideDrive

\* super.load(credentials) of a datasource with content settles
TextLoadSettled ==
    \E c \in DriveCalls, loaded \in BOOLEAN :
        /\ drive.op = "open"
        /\ drive.calls[c].pc = "textLoad"
        /\ drive' = [drive EXCEPT !.calls[c] =
               [@ EXCEPT !.pc = "done",
                         !.result = IF loaded THEN "ok" ELSE "Failed"]]
        /\ UNCHANGED outsideDrive

\* the attempt settles: the call resolves (a load has set the content), or
\* the catch handler throws, or it runs the authentication handlers
AttemptSettled ==
    \E c \in DriveCalls, outcome \in AttemptOutcomes :
        LET p == drive.calls[c]
            q == IF p.hasAuthed THEN [p EXCEPT !.second = outcome]
                 ELSE [p EXCEPT !.first = outcome]
            handled == onFailure(outcome = "authFailure", p.hasAuthed)
        IN  /\ drive.op = "open"
            /\ p.pc = "attempt"
            /\ drive' =
                 IF outcome = "ok"
                 THEN [drive EXCEPT !.hasContent = @ \/ p.op = "load",
                          !.calls[c] = [q EXCEPT !.pc = "done", !.result = "ok"]]
                 ELSE IF handled = "executeAuthHandlers"
                 THEN [drive EXCEPT !.calls[c] =
                          [q EXCEPT !.pc = "authing", !.auths = @ + 1]]
                 ELSE [drive EXCEPT !.calls[c] =
                          [q EXCEPT !.pc = "done", !.result = handled]]
            /\ UNCHANGED outsideDrive

\* executeAuthHandlers settles: rejected, the call is rejected; resolved,
\* load or save is called again with hasAuthed = true
AuthHandlersSettled ==
    \E c \in DriveCalls, authed \in BOOLEAN :
        LET p == drive.calls[c]
        IN  /\ drive.op = "open"
            /\ p.pc = "authing"
            /\ drive' = [drive EXCEPT !.calls[c] =
                 IF authed
                 THEN attempt([p EXCEPT !.hasAuthed = TRUE, !.retries = @ + 1],
                              drive.hasContent)
                 ELSE [p EXCEPT !.pc = "done", !.result = "Failed"]]
            /\ UNCHANGED outsideDrive

\* the caller has the outcome of a call
DriveCallSettled ==
    \E c \in DriveCalls :
        /\ drive.op = "open"
        /\ drive.calls[c].pc = "done"
        /\ drive' = [drive EXCEPT !.calls[c] = NoDriveCall]
        /\ UNCHANGED outsideDrive

NextDrive ==
    \/ LoadOrSave
    \/ TextLoadSettled
    \/ AttemptSettled
    \/ AuthHandlersSettled
    \/ DriveCallSettled

SpecDrive == InitDrive /\ [][NextDrive]_vars

\* C36: load and save re-authenticate at most once per top-level call:
\* executeAuthHandlers runs only after a failure flagged authFailure on the
\* first attempt, the operation is then retried exactly once, a second
\* authFailure rejects the call without another re-authentication, and a
\* failure not flagged authFailure is rejected at once with no
\* re-authentication
C36_ReauthenticatesAtMostOnce ==
    drive.op = "open" =>
        \A c \in DriveCalls :
            LET p == drive.calls[c]
            IN  /\ p.auths <= 1
                /\ p.retries <= p.auths
                /\ (p.auths = 1) = (p.first = "authFailure")
                /\ (p.auths = 1 /\ p.pc \notin {"authing", "done"}) => p.retries = 1
                /\ (p.retries = 1) = p.hasAuthed
                /\ p.second # "pending" => p.retries = 1
                /\ p.second = "authFailure" =>
                       p.pc = "done" /\ p.result = "ReauthFailed"
                /\ (p.first = "failure" \/ p.second = "failure") =>
                       p.pc = "done" /\ p.result = "Failed"
                /\ p.first = "failure" => p.auths = 0 /\ p.retries = 0

\* a save rejected after one re-authentication and a second authFailure,
\* beside a load rejected at once for a failure that is no authFailure
C36_Witness ==
    /\ drive.op = "open"
    /\ \E c, d \in DriveCalls :
        /\ drive.calls[c].op = "save"
        /\ drive.calls[c].first = "authFailure"
        /\ drive.calls[c].second = "authFailure"
        /\ drive.calls[c].auths = 1
        /\ drive.calls[c].retries = 1
        /\ drive.calls[c].result = "ReauthFailed"
        /\ drive.calls[d].op = "load"
        /\ drive.calls[d].first = "failure"
        /\ drive.calls[d].auths = 0
        /\ drive.calls[d].result = "Failed"

-----------------------------------------------------------------------------
(* A Search whose calls overlap: two incrementScore calls and two prepare  *)
(* calls can be in flight together.  getValue resolves with what the store *)
(* holds then; the value handed to setValue is in the store when setValue  *)
(* resolves.  The vaults do not change.                                    *)

OverlapCalls == {1, 2}
\* most incrementScore calls of a behaviour
MaxIncrements == 2

\* the arguments incrementScore is called with
OverlapArguments ==
    {[vaultID |-> "v1", entryID |-> "e1", url |-> URL_a],
     [vaultID |-> "v1", entryID |-> "e2", url |-> URL_a],
     [vaultID |-> "v1", entryID |-> "e1", url |-> URL_ba]}

NoOverlapCall == [pc |-> "idle"]

InitOverlap ==
    /\ EngineIdle
    /\ IdleOutsideOverlap
    /\ \E trash \in SUBSET SearchEntryIDs :
          overlap = [op |-> "constructor", trash |-> trash,
                     store |-> [v \in {"v1", "v2"} |-> NoValue],
                     _entries |-> <<>>, prepared |-> FALSE,
                     completed |-> [a \in OverlapArguments |-> 0],
                     incs |-> [c \in OverlapCalls |-> NoOverlapCall],
                     preps |-> [c \in OverlapCalls |-> NoOverlapCall]]

\* calls of incrementScore made so far
Increments ==
    LET RECURSIVE Sum(_)
        Sum(S) == IF S = {} THEN 0
                  ELSE LET a == CHOOSE a \in S : TRUE
                       IN  overlap.completed[a] + Sum(S \ {a})
    IN  Sum(OverlapArguments)
            + Cardinality({c \in OverlapCalls : overlap.incs[c].pc # "idle"})

\* incrementScore(vaultID, entryID, url), up to `await getValue'
IncrementScoreCalled ==
    \E c \in OverlapCalls, args \in OverlapArguments :
        /\ overlap.op # "idle"
        /\ overlap.incs[c].pc = "idle"
        /\ Increments < MaxIncrements
        /\ overlap' = [overlap EXCEPT !.op = "incrementScore",
                          !.incs[c] = [pc |-> "getValue", args |-> args]]
        /\ UNCHANGED outsideOverlap

\* getValue resolves: the scores are parsed, the score of the entry and the
\* host is incremented, and setValue is awaited with the JSON of the map
GetValueResolved ==
    \E c \in OverlapCalls :
        /\ overlap.op # "idle"
        /\ overlap.incs[c].pc = "getValue"
        /\ LET a == overlap.incs[c].args
               vaultScore == parseScores(overlap.store[a.vaultID])
           IN  overlap' = [overlap EXCEPT !.incs[c] =
                  [pc |-> "setValue", args |-> a,
                   value |-> ScoreJSON(incremented(vaultScore, a.entryID,
                                                   extractDomain(a.url)))]]
        /\ UNCHANGED outsideOverlap

\* setValue resolves: the value is in the store and the call returns
SetValueResolved ==
    \E c \in OverlapCalls :
        /\ overlap.op # "idle"
        /\ overlap.incs[c].pc = "setValue"
        /\ LET a == overlap.incs[c].args
           IN  overlap' = [overlap EXCEPT
                  !.store[a.vaultID] = overlap.incs[c].value,
                  !.completed[a] = @ + 1,
                  !.incs[c] = NoOverlapCall]
        /\ UNCHANGED outsideOverlap

\* prepare(), up to the getValue of the first vault
PrepareCalled ==
    \E c \in OverlapCalls :
        /\ overlap.op # "idle"
        /\ overlap.preps[c].pc = "idle"
        /\ overlap' = [overlap EXCEPT !.op = "prepare", !._entries = <<>>,
                          !.preps[c] = [pc |-> "getValue", at |-> 1]]
        /\ UNCHANGED outsideOverlap

\* the getValue of a vault resolves: the entries of the vault are pushed to
\* this._entries, and the next vault is read or the call returns
PrepareGetValueResolved ==
    \E c \in OverlapCalls :
        /\ overlap.op # "idle"
        /\ overlap.preps[c].pc = "getValue"
        /\ LET at == overlap.preps[c].at
               vaultID == _vaults[at]
               last == at = Len(_vaults)
           IN  overlap' = [overlap EXCEPT
                  !._entries = @ \o processed(vaultID, overlap.trash,
                                       parseScores(overlap.store[vaultID])),
                  !.prepared = @ \/ last,
                  !.preps[c] = IF last THEN NoOverlapCall
                               ELSE [pc |-> "getValue", at |-> at + 1]]
        /\ UNCHANGED outsideOverlap

NextOverlap ==
    \/ IncrementScoreCalled
    \/ GetValueResolved
    \/ SetValueResolved
    \/ PrepareCalled
    \/ PrepareGetValueResolved

SpecOverlap == InitOverlap /\ [][NextOverlap]_vars

\* C37: no increment is lost: from an empty store, once n incrementScore
\* calls for the same vault, entry and domain have all completed, the stored
\* count for that key is n, also when the calls overlap in time
C37_NoIncrementLost ==
    (/\ overlap.op # "idle"
     /\ \A c \in OverlapCalls : overlap.incs[c].pc = "idle")
        => \A a \in OverlapArguments :
              storedScore(overlap.store, a.vaultID, a.entryID,
                          extractDomain(a.url)) = overlap.completed[a]

\* the places of an entry in the index
Indexed(vaultID, entryID) ==
    {i \in DOMAIN overlap._entries :
        /\ overlap._entries[i].vaultID = vaultID
        /\ overlap._entries[i].id = entryID}

\* C38: once all outstanding prepare() calls have completed, every
\* non-trashed entry of every vault appears exactly once in the index, also
\* when two prepare() calls overlap in time
C38_EachEntryIndexedOnce ==
    (/\ overlap.op # "idle"
     /\ overlap.prepared
     /\ \A c \in OverlapCalls : overlap.preps[c].pc = "idle")
        => \A v \in DOMAIN _vaults :
             \A i \in DOMAIN getAllEntries(_vaults[v]) :
                LET e == getAllEntries(_vaults[v])[i]
                IN  e \notin overlap.trash
                        => Cardinality(Indexed(_vaults[v], e)) = 1

-----------------------------------------------------------------------------
(* Claims on malformed commands and on the dirty flag.                     *)

\* the command behind its share prefix, if it has one
Unprefixed(command) == IF SHARE_COMMAND_EXP(command) THEN Tail(command) ELSE command

\* a command that does not match VALID_COMMAND_EXP behind its prefix, whose
\* opcode is not in the command table, or that has more arguments than its
\* manifest entry declares
Malformed(command) ==
    LET words == Unprefixed(command)
    IN  \/ ~VALID_COMMAND_EXP(words)
        \/ words[1] \notin OpCodes
        \/ Len(Tail(words)) > ManifestArity(words[1])

\* C39: a command that is malformed (no match of the command pattern behind
\* an optional share prefix, an opcode outside the command table, or more
\* arguments than declared) makes execute() fail with history and tree
\* unchanged; a share-prefixed command that succeeds is stored in history
\* with its prefix intact and its executor receives the uuid as shareID
C39_MalformedCommandFails ==
    [][ (call'.op = "execute" /\ ~readOnly) =>
            LET command == call'.cmds[1]
            IN  /\ Malformed(command) =>
                       /\ call'.result # NoError
                       /\ UNCHANGED <<history, source>>
                /\ (SHARE_COMMAND_EXP(command) /\ call'.result = NoError) =>
                       /\ Len(history') > Len(history)
                       /\ history'[Len(history) + 1] = command
                       /\ Unprefixed(command)[1] = "cgr" =>
                              /\ GroupExists(source', command[4])
                              /\ source'.groups[IndexOfGroup(source', command[4])].share
                                     = ShareIDOf(command[1]) ]_vars

\* C40: whenever an execute() call has appended at least one line to
\* history, also a batch call that throws on a later command after earlier
\* commands were applied, dirty is true once the call has returned or thrown
C40_DirtyWhenHistoryGrew ==
    [][ (call'.op \in ExecuteOps /\ Len(history') > Len(history)) => dirty' ]_vars

====
